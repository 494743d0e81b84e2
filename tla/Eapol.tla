------------------------------- MODULE Eapol -------------------------------
(***************************************************************************)
(* The EAPOL 4-way handshake and group rekey of wsupp (src/wsupp_eapol.c), *)
(* composed with the two things it talks to:                               *)
(*   - the netlink side of the connection manager, which primes the EAPOL  *)
(*     state before ASSOCIATE, reports the association (CONNECT event,     *)
(*     allow_eapol_sends) and the loss of it (DISCONNECT event);           *)
(*   - the access point (authenticator), an environment following IEEE     *)
(*     802.11 8.5: it sends 1/4, checks 2/4, sends 3/4, checks 4/4, then   *)
(*     rekeys the group key with 1/2 and 2/2, retransmitting on timeout.   *)
(* An attacker in radio range may inject EAPOL frames with the AP's MAC    *)
(* but cannot compute a MIC.                                               *)
(*                                                                         *)
(* Keys are abstracted to the nonce pair they are derived from: PRF-480    *)
(* over the sorted MACs and nonces (pmk_to_ptk) is modelled by what it     *)
(* depends on, the ANonce and SNonce under one fixed PMK.  A MIC is the    *)
(* key it was computed with; check_mic succeeds iff that key is the KCK.   *)
(***************************************************************************)
EXTENDS Integers, Sequences, FiniteSets, Functions

CONSTANTS
  MaxSessions,   \* associations the daemon starts (start_connect calls)
  MaxRetries,    \* EAPOL retransmissions the AP makes per message
  MaxGtk,        \* group keys the AP issues (initial one included)
  MaxForged,     \* frames the attacker injects
  MaxUserStops,  \* NEUTRAL commands (cmd_neutral) the user issues
  Faults,        \* frame loss, sendto failure, timeouts and AP give-up
  StrictLength   \* the AP drops frames whose EAPOL length field is wrong

ASSUME /\ MaxSessions \in Nat \ {0}
       /\ {MaxRetries, MaxForged, MaxUserStops} \subseteq Nat
       /\ MaxGtk \in Nat \ {0}
       /\ {Faults, StrictLength} \subseteq BOOLEAN

VARIABLES
  \* supplicant (src/wsupp_eapol.c globals and the daemon's authstate)
  authstate, eapolstate, eapolsends, replay, anonce, snonce, kck, draws,
  \* kernel: installed keys, and the link ("none", "port": the AP has
  \* associated us but our transmissions are still dropped, "assoc")
  ptkInstalled, gtkInstalled, link,
  \* GTKs installed in this association, in order
  gtkLog,
  \* access point: state, replay counter, the counters of the 1/4s it sent,
  \* the PTK it derived, the current group key, retransmissions made
  apState, apReplay, apM1Replays, apPTK, apGTK, retries,
  \* rawsock frames each way, netlink events to the daemon
  toSta, toAp, nlq,
  \* associations started (also the AP's ANonce), frames forged, NEUTRAL
  \* commands issued, and whether the last attempt ended by one
  session, forged, stops, cancelled

staVars  == <<authstate, eapolstate, eapolsends, replay, anonce, snonce, kck, draws>>
kernVars == <<ptkInstalled, gtkInstalled, link, gtkLog>>
apVars   == <<apState, apReplay, apM1Replays, apPTK, apGTK, retries>>
netVars  == <<toSta, toAp, nlq>>
userVars == <<stops, cancelled>>
vars == <<staVars, kernVars, apVars, netVars, session, forged, userVars>>

-----------------------------------------------------------------------------
(* Key-info bits (KI_* under the ptype() mask) of the EAPOL-Key messages.  *)
M1Bits == {"PAIRWISE", "ACK"}
M2Bits == {"PAIRWISE", "MIC"}
M3Bits == {"PAIRWISE", "ACK", "MIC", "ENCRYPTED", "SECURE"}
M4Bits == {"PAIRWISE", "MIC", "SECURE"}
G1Bits == {"SECURE", "ENCRYPTED", "ACK", "MIC"}
G2Bits == {"MIC", "SECURE"}

NoKey == <<0, 0>>

\* A group key no AP ever issues: what an attacker puts in a forged frame.
ForgedGtk == MaxGtk + 1

\* lenfix: the EAPOL length field of the frame minus its real body length;
\* sid: the association the frame was sent in (a label for the properties,
\* read by no action).
Frame(bits, rp, an, sn, mic, gtk, lenfix) ==
  [keyinfo |-> bits, replay |-> rp, anonce |-> an, snonce |-> sn,
   mic |-> mic, gtk |-> gtk, lenfix |-> lenfix, sid |-> session]

\* The variables abort_connection() changes.
abortVars == <<authstate, eapolstate, anonce, snonce, kck,
               ptkInstalled, gtkInstalled, link, apState>>

-----------------------------------------------------------------------------
(* Supplicant                                                              *)

\* ptype(): descriptor version SHA and (keyinfo & mask) == bits.
ptype(f, bits) == f.keyinfo = bits

\* pmk_to_ptk(): KCK, KEK and TK from the PSK, both MACs and both nonces.
pmk_to_ptk(an, sn) == <<an, sn>>

\* send_packet(): frames the driver gets before the link is associated
\* are silently dropped (comment above prime_eapol_state).
transmit(fr) == toAp' = IF link = "assoc" THEN toAp \cup {fr} ELSE toAp

\* reset_eapol_state(): nonces, KCK, KEK and GTK zeroed; replay is kept.
reset_eapol_state ==
  /\ anonce' = 0
  /\ snonce' = 0
  /\ kck' = NoKey

\* abort_connection() (netlink code, not under src/): DISCONNECT sent, the
\* kernel drops keys and link, the AP the association, the daemon idles.
abort_connection ==
  /\ authstate' = "AS_IDLE"
  /\ eapolstate' = "ES_IDLE"
  /\ reset_eapol_state
  /\ ptkInstalled' = NoKey
  /\ gtkInstalled' = 0
  /\ link' = "none"
  /\ apState' = "AP_IDLE"

\* xabort(): log and abort_connection().
xabort == abort_connection /\ UNCHANGED <<toAp, gtkLog>>

\* Variant of prime_eapol_state that leaves eapolsends as the previous
\* association left it.
prime_eapol_state_keepsends ==
  /\ eapolstate' = "ES_WAITING_1_4"
  /\ UNCHANGED eapolsends

\* prime_eapol_state(): called before the ASSOCIATE request.
prime_eapol_state ==
  /\ eapolstate' = "ES_WAITING_1_4"
  /\ eapolsends' = 0

\* send_packet_2(): 2/4 with SNonce and a MIC under KCK, then WAITING_3_4;
\* a failed sendto() aborts the connection (send_packet).
send_packet_2(an, rp, sn, key) ==
  \/ /\ transmit(Frame(M2Bits, rp, 0, sn, key, 0, 0))
     /\ eapolstate' = "ES_WAITING_3_4"
     /\ anonce' = an /\ snonce' = sn /\ kck' = key
     /\ UNCHANGED <<authstate, ptkInstalled, gtkInstalled, link, apState>>
  \/ Faults /\ abort_connection /\ UNCHANGED toAp

\* Variant of allow_eapol_sends without the else branch: a 2/4 prepared
\* before the CONNECT event is never sent.
allow_eapol_sends_flagonly ==
  /\ eapolsends' = 1
  /\ UNCHANGED <<abortVars, toAp>>

\* allow_eapol_sends(): at the CONNECT event, either let recv_packet_1
\* reply itself or send the 2/4 it prepared.
allow_eapol_sends ==
  \/ /\ eapolstate = "ES_WAITING_1_4"
     /\ eapolsends' = 1
     /\ UNCHANGED <<abortVars, toAp>>
  \/ /\ eapolstate # "ES_WAITING_1_4"
     /\ send_packet_2(anonce, replay, snonce, kck)
     /\ UNCHANGED eapolsends

\* Variant of recv_packet_1 with the two memcpy() sources swapped: the
\* replay counter is stored as ANonce and the ANonce as the counter.
recv_packet_1_swapped(f) ==
  IF ~ptype(f, M1Bits)
    THEN UNCHANGED <<abortVars, toAp, replay, draws>>
    ELSE LET sn == draws + 1
             key == pmk_to_ptk(f.replay, sn)
         IN /\ draws' = sn
            /\ replay' = f.anonce
            /\ IF eapolsends = 1
                 THEN send_packet_2(f.replay, f.anonce, sn, key)
                 ELSE /\ eapolstate' = "ES_WAITING_2_4"
                      /\ anonce' = f.replay /\ snonce' = sn /\ kck' = key
                      /\ UNCHANGED <<authstate, ptkInstalled, gtkInstalled,
                                     link, apState, toAp>>

\* recv_packet_1(): keep ANonce and the replay counter, draw SNonce
\* (fill_rand), derive the PTK, and reply now or once associated.
recv_packet_1(f) ==
  IF ~ptype(f, M1Bits)
    THEN UNCHANGED <<abortVars, toAp, replay, draws>>
    ELSE LET sn == draws + 1
             key == pmk_to_ptk(f.anonce, sn)
         IN /\ draws' = sn
            /\ replay' = f.replay
            /\ IF eapolsends = 1
                 THEN send_packet_2(f.anonce, f.replay, sn, key)
                 ELSE /\ eapolstate' = "ES_WAITING_2_4"
                      /\ anonce' = f.anonce /\ snonce' = sn /\ kck' = key
                      /\ UNCHANGED <<authstate, ptkInstalled, gtkInstalled,
                                     link, apState, toAp>>

\* (handle_connect() not called: the keys go in, authstate stays)
send_packet_4_noconnect(rp, gtk) ==
  \/ /\ transmit(Frame(M4Bits, rp, 0, 0, kck, 0, 0))
     /\ eapolstate' = "ES_NEGOTIATED"
     /\ ptkInstalled' = kck
     /\ gtkInstalled' = gtk
     /\ gtkLog' = Append(gtkLog, gtk)
     /\ anonce' = 0 /\ snonce' = 0
     /\ UNCHANGED <<authstate, kck, link, apState>>
  \/ Faults /\ abort_connection /\ UNCHANGED <<toAp, gtkLog>>

\* send_packet_4(): 4/4, then NEGOTIATED, upload_ptk(), upload_gtk(),
\* cleanup_keys() (nonces zeroed, KCK kept for rekeys), handle_connect().
send_packet_4(rp, gtk) ==
  \/ /\ transmit(Frame(M4Bits, rp, 0, 0, kck, 0, 0))
     /\ eapolstate' = "ES_NEGOTIATED"
     /\ ptkInstalled' = kck
     /\ gtkInstalled' = gtk
     /\ gtkLog' = Append(gtkLog, gtk)
     /\ anonce' = 0 /\ snonce' = 0
     /\ authstate' = "AS_CONNECTED"
     /\ UNCHANGED <<kck, link, apState>>
  \/ Faults /\ abort_connection /\ UNCHANGED <<toAp, gtkLog>>

\* Variant of recv_packet_3 without the check_mic() test.
recv_packet_3_nomic(f) ==
  /\ UNCHANGED draws
  /\ IF \/ ~ptype(f, M3Bits)
        \/ f.anonce # anonce
        \/ f.replay <= replay
       THEN xabort /\ UNCHANGED replay
       ELSE /\ replay' = f.replay
            /\ send_packet_4(f.replay, f.gtk)

\* recv_packet_3(): a 1/4 resend, wrong bits, a changed nonce, a replay
\* counter not above the stored one or a bad MIC abort the connection.
recv_packet_3(f) ==
  /\ UNCHANGED draws
  /\ IF \/ ~ptype(f, M3Bits)
        \/ f.anonce # anonce
        \/ f.replay <= replay
        \/ f.mic # kck
       THEN xabort /\ UNCHANGED replay
       ELSE /\ replay' = f.replay
            /\ send_packet_4(f.replay, f.gtk)

\* send_group_2(): 2/2 with a MIC under KCK, then upload_gtk().  Its
\* paclen field is sizeof(*ek), four more than the body (no "- 4").
send_group_2(rp, gtk) ==
  \/ /\ transmit(Frame(G2Bits, rp, 0, 0, kck, 0, 4))
     /\ gtkInstalled' = gtk
     /\ gtkLog' = Append(gtkLog, gtk)
     /\ UNCHANGED <<authstate, eapolstate, anonce, snonce, kck, ptkInstalled,
                    link, apState>>
  \/ Faults /\ abort_connection /\ UNCHANGED <<toAp, gtkLog>>

\* Variants of recv_group_1: without the check_mic() test; without the
\* replay test; and without the memcpy() that stores the new counter, so
\* 2/2 echoes the old one.
recv_group_1_nomic(f) ==
  /\ UNCHANGED draws
  /\ IF \/ ~ptype(f, G1Bits)
        \/ f.replay <= replay
       THEN UNCHANGED <<abortVars, toAp, replay, gtkLog>>
       ELSE /\ replay' = f.replay
            /\ send_group_2(f.replay, f.gtk)

recv_group_1_noreplay(f) ==
  /\ UNCHANGED draws
  /\ IF \/ ~ptype(f, G1Bits)
        \/ f.mic # kck
       THEN UNCHANGED <<abortVars, toAp, replay, gtkLog>>
       ELSE /\ replay' = f.replay
            /\ send_group_2(f.replay, f.gtk)

recv_group_1_oldreplay(f) ==
  /\ UNCHANGED draws
  /\ IF \/ ~ptype(f, G1Bits)
        \/ f.replay <= replay
        \/ f.mic # kck
       THEN UNCHANGED <<abortVars, toAp, replay, gtkLog>>
       ELSE /\ UNCHANGED replay
            /\ send_group_2(replay, f.gtk)

\* recv_group_1(): wrong bits, an old replay counter or a bad MIC are
\* ignored; otherwise the new GTK is taken and 2/2 sent.
recv_group_1(f) ==
  /\ UNCHANGED draws
  /\ IF \/ ~ptype(f, G1Bits)
        \/ f.replay <= replay
        \/ f.mic # kck
       THEN UNCHANGED <<abortVars, toAp, replay, gtkLog>>
       ELSE /\ replay' = f.replay
            /\ send_group_2(f.replay, f.gtk)

\* dispatch(): by eapolstate; WAITING_2_4 and IDLE ignore every frame.
dispatch(f) ==
  \/ eapolstate = "ES_WAITING_1_4" /\ recv_packet_1(f) /\ UNCHANGED gtkLog
  \/ eapolstate = "ES_WAITING_3_4" /\ recv_packet_3(f)
  \/ eapolstate = "ES_NEGOTIATED" /\ recv_group_1(f)
  \/ /\ eapolstate \in {"ES_IDLE", "ES_WAITING_2_4"}
     /\ UNCHANGED <<abortVars, toAp, replay, draws, gtkLog>>

\* handle_rawsock(): one frame from the AP's MAC; a length field that
\* does not match the frame size is ignored, the rest dispatched.
handle_rawsock ==
  \E f \in toSta :
    /\ toSta' = toSta \ {f}
    /\ \/ f.lenfix # 0 /\ UNCHANGED <<abortVars, toAp, replay, draws, gtkLog>>
       \/ f.lenfix = 0 /\ dispatch(f)
    /\ UNCHANGED <<eapolsends, apReplay, apM1Replays, apPTK, apGTK, retries,
                   nlq, session, forged, userVars>>

-----------------------------------------------------------------------------
(* Connection manager and event loop (netlink code is not under src/; it  *)
(* is modelled from the state diagram of the specification).              *)

\* start_connect(): the AP is chosen, the EAPOL state primed, AUTHENTICATE
\* and ASSOCIATE sent; the kernel associates, the link is not yet usable.
\* gtkLog is ghost state, restarted for the new association.
start_connect ==
  /\ authstate = "AS_IDLE"
  /\ session < MaxSessions
  /\ session' = session + 1
  /\ prime_eapol_state
  /\ authstate' = "AS_CONNECTING"
  /\ link' = "port"
  /\ gtkLog' = <<>>
  /\ cancelled' = FALSE
  /\ UNCHANGED <<replay, anonce, snonce, kck, draws, ptkInstalled,
                 gtkInstalled, apVars, netVars, forged, stops>>

\* The kernel finishes the association: transmissions now get through,
\* and the CONNECT event is queued for the daemon.
KernelConnect ==
  /\ link = "port"
  /\ link' = "assoc"
  /\ nlq' = Append(nlq, [type |-> "CONNECT", session |-> session])
  /\ UNCHANGED <<staVars, ptkInstalled, gtkInstalled, gtkLog, apVars,
                 toSta, toAp, session, forged, userVars>>

\* The netlink handler: CONNECT of the current association while
\* CONNECTING calls allow_eapol_sends(); DISCONNECT of the current
\* association drops it.  Events of an earlier association are ignored.
handle_netlink ==
  /\ nlq # <<>>
  /\ nlq' = Tail(nlq)
  /\ LET e == Head(nlq) IN
     \/ /\ e.type = "CONNECT" /\ e.session = session
        /\ authstate = "AS_CONNECTING"
        /\ allow_eapol_sends
        /\ UNCHANGED <<replay, draws, gtkLog>>
     \/ /\ e.type = "DISCONNECT" /\ e.session = session
        /\ authstate # "AS_IDLE"
        /\ abort_connection
        /\ UNCHANGED <<eapolsends, replay, draws, toAp, gtkLog>>
     \/ /\ \/ e.session # session
           \/ e.type = "CONNECT" /\ authstate # "AS_CONNECTING"
           \/ e.type = "DISCONNECT" /\ authstate = "AS_IDLE"
        /\ UNCHANGED <<staVars, kernVars, apState, toAp>>
  /\ UNCHANGED <<apReplay, apM1Replays, apPTK, apGTK, retries, toSta,
                 session, forged, userVars>>

\* Nothing is in flight: no frame, no event, no association step pending.
\* Timers are long next to frame latency, so without faults they expire
\* only in such a state; with faults they may expire at any time.
Settled ==
  /\ toSta = {} /\ toAp = {} /\ nlq = <<>>
  /\ link # "port"
  /\ ~(apState = "AP_IDLE" /\ link = "assoc")

TimerMayFire == Faults \/ Settled

\* The main loop passes the timer to ppoll() as a relative timeout, anew
\* on every iteration: it expires only after a whole period in which no
\* descriptor of the daemon became ready.
DaemonIdle == toSta = {} /\ nlq = <<>>

\* timer_expired() while CONNECTING: the attempt is aborted.  (Its other
\* branches scan and do not touch the state modelled here.)
timer_expired ==
  /\ DaemonIdle
  /\ TimerMayFire
  /\ authstate = "AS_CONNECTING"
  /\ abort_connection
  /\ UNCHANGED <<eapolsends, replay, draws, gtkLog, apReplay, apM1Replays,
                 apPTK, apGTK, retries, netVars, session, forged, userVars>>

\* cmd_neutral(): opermode NEUTRAL and start_disconnect(), which sends
\* DISCONNECT for a connection in progress or established (and fails with
\* EALREADY, changing nothing here, when idle); clr_timer().  The kernel
\* deauthenticates at once, dropping keys and link, and reports
\* DISCONNECT; the daemon's state stays as it is until handle_netlink()
\* takes that event and calls abort_connection().
cmd_neutral ==
  /\ stops < MaxUserStops
  /\ authstate \in {"AS_CONNECTING", "AS_CONNECTED"}
  /\ stops' = stops + 1
  /\ cancelled' = TRUE
  /\ ptkInstalled' = NoKey
  /\ gtkInstalled' = 0
  /\ link' = "none"
  /\ apState' = "AP_IDLE"
  /\ nlq' = Append(nlq, [type |-> "DISCONNECT", session |-> session])
  /\ UNCHANGED <<staVars, gtkLog, apReplay, apM1Replays, apPTK, apGTK,
                 retries, toSta, toAp, session, forged>>

-----------------------------------------------------------------------------
(* Access point (IEEE 802.11 authenticator), the environment.              *)

Msg1(r) == Frame(M1Bits, r, session, 0, NoKey, 0, 0)
Msg3(r) == Frame(M3Bits, r, session, 0, apPTK, apGTK, 0)
Group1(r, g) == Frame(G1Bits, r, 0, 0, apPTK, g, 0)

\* The AP, associated with us, starts the handshake with 1/4.
ApStart ==
  /\ apState = "AP_IDLE"
  /\ link \in {"port", "assoc"}
  /\ apState' = "AP_M1"
  /\ apReplay' = 1
  /\ apM1Replays' = {1}
  /\ retries' = 0
  /\ toSta' = toSta \cup {Msg1(1)}
  /\ UNCHANGED <<staVars, kernVars, apPTK, apGTK, toAp, nlq, session,
                 forged, userVars>>

\* Frames the AP accepts: a 2/4 answering one of its 1/4s with a MIC under
\* the PTK of its ANonce and the SNonce; a 4/4, or a 2/2 (whose length a
\* strict AP checks), with the current counter and a MIC under that PTK.
ApAcceptsM2(f) ==
  /\ apState = "AP_M1" /\ ptype(f, M2Bits)
  /\ f.replay \in apM1Replays
  /\ f.mic = pmk_to_ptk(session, f.snonce)

ApAcceptsLast(f) ==
  /\ \/ apState = "AP_M3" /\ ptype(f, M4Bits)
     \/ apState = "AP_G1" /\ ptype(f, G2Bits) /\ (StrictLength => f.lenfix = 0)
  /\ f.replay = apReplay
  /\ f.mic = apPTK

\* The AP takes one frame: 2/4 is answered with 3/4, 4/4 and 2/2 complete
\* the exchange, anything else is dropped.
ApRecv ==
  \E f \in toAp :
    /\ toAp' = toAp \ {f}
    /\ \/ /\ ApAcceptsM2(f)
          /\ apPTK' = f.mic
          /\ apReplay' = apReplay + 1
          /\ toSta' = toSta \cup {Frame(M3Bits, apReplay + 1, session, 0,
                                        f.mic, apGTK, 0)}
          /\ apState' = "AP_M3"
          /\ retries' = 0
       \/ /\ ApAcceptsLast(f)
          /\ apState' = "AP_DONE"
          /\ UNCHANGED <<apPTK, apReplay, toSta, retries>>
       \/ /\ ~ApAcceptsM2(f) /\ ~ApAcceptsLast(f)
          /\ UNCHANGED <<apState, apPTK, apReplay, toSta, retries>>
    /\ UNCHANGED <<staVars, kernVars, apM1Replays, apGTK, nlq, session,
                   forged, userVars>>

\* On its retransmission timeout the AP resends the pending message with
\* the next replay counter.
ApRetransmit ==
  /\ apState \in {"AP_M1", "AP_M3", "AP_G1"}
  /\ retries < MaxRetries
  /\ TimerMayFire
  /\ retries' = retries + 1
  /\ apReplay' = apReplay + 1
  /\ apM1Replays' = IF apState = "AP_M1" THEN apM1Replays \cup {apReplay + 1}
                                         ELSE apM1Replays
  /\ toSta' = toSta \cup {CASE apState = "AP_M1" -> Msg1(apReplay + 1)
                            [] apState = "AP_M3" -> Msg3(apReplay + 1)
                            [] apState = "AP_G1" -> Group1(apReplay + 1, apGTK)}
  /\ UNCHANGED <<staVars, kernVars, apState, apPTK, apGTK, toAp, nlq,
                 session, forged, userVars>>

\* Out of retransmissions the AP deauthenticates us; the kernel reports
\* DISCONNECT.
ApGiveUp ==
  /\ Faults
  /\ apState \in {"AP_M1", "AP_M3", "AP_G1"}
  /\ retries = MaxRetries
  /\ apState' = "AP_IDLE"
  /\ link' = "none"
  /\ nlq' = Append(nlq, [type |-> "DISCONNECT", session |-> session])
  /\ UNCHANGED <<staVars, ptkInstalled, gtkInstalled, gtkLog, apReplay,
                 apM1Replays, apPTK, apGTK, retries, toSta, toAp, session,
                 forged, userVars>>

\* Group rekey: a new GTK for the BSS, sent with 1/2.
ApRekey ==
  /\ apState = "AP_DONE"
  /\ apGTK < MaxGtk
  /\ apGTK' = apGTK + 1
  /\ apReplay' = apReplay + 1
  /\ toSta' = toSta \cup {Group1(apReplay + 1, apGTK + 1)}
  /\ apState' = "AP_G1"
  /\ retries' = 0
  /\ UNCHANGED <<staVars, kernVars, apM1Replays, apPTK, toAp, nlq,
                 session, forged, userVars>>

-----------------------------------------------------------------------------
(* Radio environment                                                       *)

\* An attacker injects a key frame with the AP's MAC, the ANonce it saw on
\* the air and the next replay counter, but no valid MIC.
Forge ==
  /\ forged < MaxForged
  /\ forged' = forged + 1
  /\ \E bits \in {M1Bits, M3Bits, G1Bits}, lenfix \in {0, 4} :
       toSta' = toSta \cup {Frame(bits, apReplay + 1, session, 0, NoKey,
                                  ForgedGtk, lenfix)}
  /\ UNCHANGED <<staVars, kernVars, apVars, toAp, nlq, session, userVars>>

\* A frame is lost on the air.
Lose ==
  /\ Faults
  /\ \/ \E f \in toSta : toSta' = toSta \ {f} /\ UNCHANGED toAp
     \/ \E f \in toAp : toAp' = toAp \ {f} /\ UNCHANGED toSta
  /\ UNCHANGED <<staVars, kernVars, apVars, nlq, session, forged, userVars>>

-----------------------------------------------------------------------------
Init ==
  /\ authstate = "AS_IDLE"
  /\ eapolstate = "ES_IDLE"
  /\ eapolsends = 0
  /\ replay = 0
  /\ anonce = 0
  /\ snonce = 0
  /\ kck = NoKey
  /\ draws = 0
  /\ ptkInstalled = NoKey
  /\ gtkInstalled = 0
  /\ link = "none"
  /\ gtkLog = <<>>
  /\ apState = "AP_IDLE"
  /\ apReplay = 0
  /\ apM1Replays = {}
  /\ apPTK = NoKey
  /\ apGTK = 1
  /\ retries = 0
  /\ toSta = {}
  /\ toAp = {}
  /\ nlq = <<>>
  /\ session = 0
  /\ forged = 0
  /\ stops = 0
  /\ cancelled = FALSE

Next ==
  \/ start_connect
  \/ KernelConnect
  \/ handle_netlink
  \/ handle_rawsock
  \/ timer_expired
  \/ cmd_neutral
  \/ ApStart
  \/ ApRecv
  \/ ApRetransmit
  \/ ApGiveUp
  \/ ApRekey
  \/ Forge
  \/ Lose

\* The daemon's loop serves every ready descriptor (weak fairness on its
\* handlers, and the connect timer armed by start_connect fires); the
\* kernel completes an association and the AP answers, retransmits and
\* gives up on its timers.  Rekeys, faults, the attacker and new
\* connection attempts are not forced.
Fairness ==
  /\ WF_vars(handle_rawsock)
  /\ WF_vars(handle_netlink)
  /\ WF_vars(KernelConnect)
  /\ WF_vars(ApStart)
  /\ WF_vars(ApRecv)
  /\ WF_vars(ApRetransmit)
  /\ WF_vars(ApGiveUp)
  /\ WF_vars(timer_expired)

Spec == Init /\ [][Next]_vars /\ Fairness

-----------------------------------------------------------------------------
(* Properties                                                              *)

EStates == {"ES_IDLE", "ES_WAITING_1_4", "ES_WAITING_2_4", "ES_WAITING_3_4",
            "ES_NEGOTIATED"}
AStates == {"AS_IDLE", "AS_CONNECTING", "AS_CONNECTED"}
APStates == {"AP_IDLE", "AP_M1", "AP_M3", "AP_DONE", "AP_G1"}
Keys == (0..MaxSessions) \X Nat

TypeOK ==
  /\ authstate \in AStates
  /\ eapolstate \in EStates
  /\ eapolsends \in {0, 1}
  /\ {replay, apReplay, draws, retries, forged} \subseteq Nat
  /\ anonce \in 0..MaxSessions
  /\ snonce \in Nat
  /\ {kck, ptkInstalled, apPTK} \subseteq Keys
  /\ gtkInstalled \in 0..ForgedGtk
  /\ link \in {"none", "port", "assoc"}
  /\ gtkLog \in Seq(1..ForgedGtk)
  /\ apState \in APStates
  /\ apM1Replays \subseteq Nat
  /\ apGTK \in 1..MaxGtk
  /\ session \in 0..MaxSessions
  /\ stops \in 0..MaxUserStops
  /\ cancelled \in BOOLEAN

\* Every PTK the kernel holds for us is the one the AP derived: recv_packet_3
\* and its MIC check never let a forged, stale or retransmitted 3/4 install
\* a key the AP does not share.
PtkAgrees == ptkInstalled # NoKey => ptkInstalled = apPTK

\* Every group key the kernel holds was issued by the AP: recv_packet_3 and
\* recv_group_1 never install the key of a frame an attacker injected.
GtkAuthentic == gtkInstalled <= apGTK

\* Within an association, group keys are installed in the order the AP
\* issued them: a delayed or retransmitted 1/2 carrying an older GTK never
\* rolls the key back (the replay check of recv_group_1).
NoGtkRollback ==
  \A i, j \in 1..Len(gtkLog) : i < j => gtkLog[i] <= gtkLog[j]

\* No group key is installed twice in one association (IEEE 802.11-2016
\* 12.7.6.1 after the key-reinstallation attacks): recv_group_1 taking a
\* retransmitted 1/2 of the current GTK must not install it again.
NoGtkReinstall ==
  \A i, j \in 1..Len(gtkLog) : i < j => gtkLog[i] < gtkLog[j]

\* Priming: 2/4 is never handed to the driver while the association is
\* incomplete (link "port"), where send_packet() would see it silently
\* dropped; prime_eapol_state holds it back until allow_eapol_sends.
Packet2NotPremature ==
  [][eapolstate' = "ES_WAITING_3_4" /\ eapolstate # "ES_WAITING_3_4"
       => link # "port"]_vars

\* No frame of an earlier association is still queued on the rawsock,
\* which stays open across connections.
NoStaleFrames == \A f \in toSta : f.sid = session

\* Without faults, every connection attempt the user does not cancel ends
\* CONNECTED, whichever of 1/4 and the CONNECT event the daemon sees
\* first (the priming of prime_eapol_state and allow_eapol_sends).
HandshakeCompletes ==
  authstate = "AS_CONNECTING" ~> (authstate = "AS_CONNECTED" \/ cancelled)

\* The same for an attempt that starts with no frame of an earlier
\* association queued.
FreshHandshakeCompletes ==
  (authstate = "AS_CONNECTING" /\ eapolstate = "ES_WAITING_1_4" /\ NoStaleFrames)
    ~> (authstate = "AS_CONNECTED" \/ cancelled)

\* A station that believes it is connected while the AP does not (a lost
\* 4/4 leaves the AP waiting in AP_M3, and the 3/4 it retransmits reaches
\* recv_group_1 in NEGOTIATED, which ignores it) is not left so: the AP
\* completes or gives up, and the DISCONNECT reported for its deauth is
\* handled by handle_netlink even in AS_CONNECTED.
ConnectedAgrees ==
  (authstate = "AS_CONNECTED" /\ apState \notin {"AP_DONE", "AP_G1"})
    ~> (authstate # "AS_CONNECTED" \/ apState \in {"AP_DONE", "AP_G1"})

\* Without faults, every group rekey the AP starts completes (or the
\* association is dropped): the AP accepts the 2/2 send_group_2 sends.
RekeyCompletes == apState = "AP_G1" ~> apState \in {"AP_DONE", "AP_IDLE"}

\* Eapol implements Association: with the attacker, loss, early timers and
\* AP give-up, authstate only moves along IDLE -> CONNECTING -> CONNECTED
\* -> IDLE (or CONNECTING -> IDLE); keys are installed only by the step
\* that connects (send_packet_4 with handle_connect), which takes the AP's
\* PTK, and by rekeys while connected; the PTK stays until
\* abort_connection clears both keys.
Assoc == INSTANCE Association
           WITH state <- authstate, ptk <- ptkInstalled, gtk <- gtkInstalled,
                apPtk <- apPTK, apGtk <- apGTK
AssociationRefined == Assoc!Spec
====
