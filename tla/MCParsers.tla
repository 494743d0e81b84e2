------------------------------ MODULE MCParsers -----------------------------
(***************************************************************************)
(* The length-prefixed parsers of the repository, each on its own        *)
(* inputs: parse_station_ies() (StaIes) on scan-result IE buffers,        *)
(* fetch_gtk() (Kde) on EAPOL key data, and uc_recvmsg() (UcRecv) on a    *)
(* stream of control messages, and the rfkill watcher (Rfkill) on the    *)
(* events of /dev/rfkill.  They share no state; a behaviour runs one of   *)
(* them on real input, and they are called one after the other:           *)
(* parse_station_ies, fetch_gtk, then uc_recvmsg or the watcher.  The     *)
(* walks without real input run on an empty buffer, where they end in one *)
(* step; uc_recvmsg without real input is not called (no stream, lens =   *)
(* <<>>), and the watcher without one has no radios and no fd (RfIdle).   *)
(*                                                                         *)
(* IE inputs: every prefix of every buffer of one or two elements taken   *)
(* from the list below.  The RSN elements end after each optional field,  *)
(* some of them right after a count of 0, which is where get2le's bound   *)
(* matters; the SSIDs are empty, short and over 32 bytes.                 *)
(***************************************************************************)
EXTENDS StaIes

VARIABLES kbuf, tkipgroup, kptr, ret, GTK, gtkindex,
          lens, sent, closed, taken, ubuf, mptr, rptr, umsg, dontwait, total,
          upc, uret, got,
          kind, matched, blocked, queue, rfkill, rfkidx, rfkilled, timerset,
          ifup, alive, restores, toggles

SsidHome   == <<0, 4, 104, 111, 109, 101>>
SsidHidden == <<0, 0>>
SsidLong   == <<0, 33>> \o [i \in 1..33 |-> 120]
\* group CCMP, pairwise CCMP, AKM PSK, capabilities
RsnCcmp    == <<48, 20, 1, 0, 0, 15, 172, 4, 1, 0, 0, 15, 172, 4,
                1, 0, 0, 15, 172, 2, 0, 0>>
\* group TKIP, pairwise TKIP and CCMP, AKM PSK
RsnTkip    == <<48, 22, 1, 0, 0, 15, 172, 2, 2, 0, 0, 15, 172, 2,
                0, 15, 172, 4, 1, 0, 0, 15, 172, 2>>
\* AKM 802.1X, not PSK
RsnEap     == <<48, 18, 1, 0, 0, 15, 172, 4, 1, 0, 0, 15, 172, 4,
                1, 0, 0, 15, 172, 1>>
RsnNoAkm   == <<48, 14, 1, 0, 0, 15, 172, 4, 1, 0, 0, 15, 172, 4, 0, 0>>
RsnNoPair  == <<48, 8, 1, 0, 0, 15, 172, 4, 0, 0>>
RsnGroup   == <<48, 6, 1, 0, 0, 15, 172, 4>>
RsnVersion == <<48, 2, 1, 0>>
RsnV2      == <<48, 6, 2, 0, 0, 15, 172, 4>>
Wpa        == <<221, 4, 0, 80, 242, 1>>
Wps        == <<221, 5, 0, 80, 242, 4, 16>>
VendorCut  == <<221, 3, 0, 80, 242>>
VendorElse == <<221, 4, 0, 16, 24, 1>>
Country    == <<7, 2, 85, 83>>

Ssids == {SsidHome, SsidHidden, SsidLong}
Others == {RsnCcmp, RsnTkip, RsnEap, RsnNoAkm, RsnNoPair, RsnGroup, RsnVersion,
           RsnV2, Wpa, Wps, VendorCut, VendorElse, Country}

\* Two elements, at most one of them an SSID.
Pairs == {<<a, b>> \in (Ssids \cup Others) \X (Ssids \cup Others) :
            a # b /\ ~(a \in Ssids /\ b \in Ssids)}
Whole == (Ssids \cup Others) \cup {p[1] \o p[2] : p \in Pairs}

MCInputs == UNION {{SubSeq(w, 1, n) : n \in 0 .. Len(w)} : w \in Whole}

-----------------------------------------------------------------------------
(* Inputs for Kde: every prefix of key data made of one to three of the   *)
(* elements below, the GTK KDEs carrying 16 or 32 distinct key bytes so   *)
(* that the TKIP swap shows.                                              *)

K16 == [i \in 1..16 |-> 100 + i]
K32 == [i \in 1..32 |-> 100 + i]
GtkKde(keyid, key) == <<221, 6 + Len(key), 0, 15, 172, 1, keyid, 0>> \o key

Gtk16     == GtkKde(1, K16)
Gtk32     == GtkKde(2, K32)
GtkTx0    == GtkKde(4, K16)                 \* key ID 0, Tx bit set
GtkShort  == GtkKde(1, SubSeq(K16, 1, 15))  \* a 15-byte key
Pmkid     == <<221, 6, 0, 15, 172, 4, 7, 7>>
WpaIe     == <<221, 6, 0, 80, 242, 1, 1, 0>>
RsnIe     == <<48, 2, 1, 0>>
Pad       == <<221, 0, 0>>

Pieces == {Gtk16, Gtk32, GtkTx0, GtkShort, Pmkid, WpaIe, RsnIe, Pad}
KdeWhole == Pieces \cup {p[1] \o p[2] : p \in Pieces \X Pieces}
              \cup {RsnIe \o g \o Pad : g \in {Gtk16, Gtk32}}

MCKeyDatas == UNION {{SubSeq(w, 1, n) : n \in 0 .. Len(w)} : w \in KdeWhole}

Keys == INSTANCE Kde WITH KeyDatas <- MCKeyDatas, buf <- kbuf, ptr <- kptr

kvars == <<kbuf, tkipgroup, kptr, ret, GTK, gtkindex>>

-----------------------------------------------------------------------------
(* Inputs for UcRecv: streams of two or three messages in a 16-byte       *)
(* buffer with the real 8-byte header: a bare header, messages that leave *)
(* room for part of the next, one that fills the buffer exactly, and one  *)
(* longer than the buffer.  The peer may close after any byte, so the     *)
(* empty stream and every cut of these are covered.                        *)

MCStreams == {<<12, 8, 9>>, <<9, 20>>, <<16, 10>>}

\* <<>>: no uc_recvmsg caller in this behaviour.
Uc == INSTANCE UcRecv WITH Streams <- MCStreams \cup {<<>>}, BufSize <- 16,
                           HdrSize <- 8
UcCalled == lens # <<>>

-----------------------------------------------------------------------------
(* Inputs for Rfkill: two radios, ours at index 1, index 0 another WLAN  *)
(* radio or a Bluetooth one; three block changes, enough to block, unblock *)
(* and block again, or to toggle both radios.                            *)

MCKinds == {(0 :> "wlan" @@ 1 :> "wlan"), (0 :> "bluetooth" @@ 1 :> "wlan")}
NoRadio == [i \in 0 .. 1 |-> "none"]

\* NoRadio: no rfkill watcher in this behaviour.
Rf == INSTANCE Rfkill WITH Radios <- 0 .. 1, Ours <- 1, RfFd <- 3,
                           Kinds <- MCKinds \cup {NoRadio},
                           MaxToggles <- 3
RfCalled == kind # NoRadio

\* The walk of parse_station_ies, and of fetch_gtk, has returned.
IesDone == pc = "done"
KdeDone == ret # Keys!Running

uvars == <<lens, sent, closed, taken, ubuf, mptr, rptr, umsg, dontwait, total,
           upc, uret, got>>
rvars == <<kind, matched, blocked, queue, rfkill, rfkidx, rfkilled, timerset,
           ifup, alive, restores, toggles>>
allvars == <<vars, kvars, uvars, rvars>>

\* The watcher without radios: /dev/rfkill failed to open.
RfIdle == Rf!Init /\ kind = NoRadio /\ rfkill = -1 /\ ~matched /\ ifup
                  /\ blocked = [i \in 0 .. 1 |-> FALSE]

\* One parser on real input, the others on empty input.
ParsersInit ==
  \/ Init /\ Keys!Init /\ kbuf = <<>> /\ Uc!Init /\ lens = <<>> /\ RfIdle
  \/ Init /\ buf = <<>> /\ Keys!Init /\ Uc!Init /\ lens = <<>> /\ RfIdle
  \/ Init /\ buf = <<>> /\ Keys!Init /\ kbuf = <<>> /\ Uc!Init /\ RfIdle
  \/ Init /\ buf = <<>> /\ Keys!Init /\ kbuf = <<>> /\ Uc!Init /\ lens = <<>>
     /\ Rf!Init /\ RfCalled
\* The walks, then uc_recvmsg or the rfkill watcher.
WalksNext ==
  \/ Next /\ UNCHANGED <<kvars, uvars, rvars>>
  \/ IesDone /\ Keys!Next /\ UNCHANGED <<vars, uvars, rvars>>
  \/ IesDone /\ KdeDone /\ UcCalled /\ Uc!Next /\ UNCHANGED <<vars, kvars, rvars>>
RfNext == IesDone /\ KdeDone /\ RfCalled /\ Rf!Next /\ UNCHANGED <<vars, kvars, uvars>>
ParsersNext == WalksNext \/ RfNext
\* The walks are plain function calls: once called they run to their
\* return; the caller of uc_recvmsg goes on calling, and its peer writes
\* and closes (UcRecv's fairness: once the walks have returned, the steps
\* of ParsersNext are uc_recvmsg's and the peer's).
\* The rfkill watcher's reads run whenever the fd has data (poll), the
\* kernel and the connection code are not bound to act.
ParsersSpec ==
  /\ ParsersInit /\ [][ParsersNext]_allvars
  /\ WF_allvars(WalksNext)
  /\ WF_allvars(IesDone /\ KdeDone /\ UcCalled /\ (Uc!Write \/ Uc!Close)
                 /\ UNCHANGED <<vars, kvars, rvars>>)
  /\ WF_allvars(IesDone /\ KdeDone /\ RfCalled /\ Rf!Read
                 /\ UNCHANGED <<vars, kvars, uvars>>)

KdeTypeOK == Keys!TypeOK

\* fetch_gtk() leaves the key and key ID the reference decoder reads, or
\* fails where it fails (Kde.tla).
GtkFetchedAsReference == Keys!GtkFetchedAsReference

UcTypeOK == Uc!TypeOK

\* Each message uc_recvmsg() hands over is the next one of the stream,
\* whole (UcRecv.tla).
DeliveredInOrder == Uc!DeliveredInOrder

\* The calls end with every deliverable message handed over and the
\* error that says why they stopped (UcRecv.tla).
AllDelivered == UcCalled => Uc!AllDelivered

RfTypeOK == Rf!TypeOK

\* After a drained read loop, rfkilled is the adopted radio's kernel
\* state (Rfkill.tla).
RfkilledTracksAdopted == Rf!RfkilledTracksAdopted

\* An unblock of our adopted radio brings the interface back up
\* (Rfkill.tla).
UnkillBringsUp == Rf!UnkillBringsUp
=============================================================================
