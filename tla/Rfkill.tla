------------------------------- MODULE Rfkill -------------------------------
(***************************************************************************)
(* The rfkill watcher, src/wsupp_rfkill.c with check_rfkill() and         *)
(* clr_timer() of src/wsupp.c.  The kernel keeps a blocked state per      *)
(* radio and queues one event per change on the open /dev/rfkill fd; an   *)
(* ADD event for every radio is queued when the fd is opened.  wsupp      *)
(* reads one event per read(), adopts the first WLAN radio whose event    *)
(* comes while match_rfkill() holds, and follows that radio only.         *)
(*                                                                         *)
(* Radios are the kernel's rfkill indices 0 .. N-1; Ours is the radio of  *)
(* the managed interface.  When Ours is blocked the kernel takes the      *)
(* interface down; when it is unblocked nothing brings it back up but     *)
(* bring_iface_up() (the comment at the top of the file).  SIOCSIFFLAGS   *)
(* with IFF_UP fails while Ours is blocked (-ERFKILL), and the code quits. *)
(***************************************************************************)
EXTENDS Integers, Sequences, FiniteSets

CONSTANTS
  Radios,       \* rfkill indices
  Ours,         \* the index of the managed interface's radio
  Kinds,        \* the possible assignments of rfkill types to Radios
  RfFd,         \* the fd open("/dev/rfkill") returns
  MaxToggles    \* bound on block state changes

ASSUME Ours \in Radios /\ RfFd > 0

WLAN == "wlan"

VARIABLES
  kind,         \* the rfkill type of each radio
  matched,      \* stat() of /sys/class/net/$ifname/phy80211/rfkill succeeds
  blocked,      \* the kernel's soft || hard state of each radio
  queue,        \* events queued on the fd, not yet read
  rfkill,       \* the fd, or -1
  rfkidx,       \* the adopted radio, or -1
  rfkilled,
  timerset,
  ifup,         \* IFF_UP of the interface
  alive,        \* FALSE once quit() has been called
  restores,     \* calls of handle_rfrestored()
  toggles

rvars == <<kind, matched, blocked, queue, rfkill, rfkidx, rfkilled, timerset,
           ifup, alive, restores, toggles>>

\* The struct rfkill_event fields the code reads (soft || hard as one).
Event(i, b) == [idx |-> i, type |-> kind[i], soft |-> b[i]]

\* The ADD events queued on open, one per radio in index order.
AddEvents == [k \in 1 .. Cardinality(Radios) |-> Event(k - 1, blocked)]

\* bring_iface_up(): nothing if IFF_UP is set, else set it; quit() when
\* the ioctl fails, which it does while Ours is blocked.  The other
\* quits (a name too long, SIOCGIFFLAGS failing) are not taken.
bring_iface_up ==
  IF ifup THEN UNCHANGED <<ifup, alive>>
  ELSE IF blocked[Ours] THEN alive' = FALSE /\ UNCHANGED ifup
  ELSE ifup' = TRUE /\ UNCHANGED alive

\* match_rfkill(idx): stat() of a path that does not depend on idx.
match_rfkill(idx) == matched

clr_timer == timerset' = FALSE

\* handle_rfrestored(), whose body is not in the repository: it resets the
\* auth state and schedules a scan (spec 4.7), counted here.
handle_rfrestored == restores' = restores + 1

\* The unblock branch after rfkilled = 0: bring_iface_up(), then, unless
\* it quit, handle_rfrestored().
unkilled == bring_iface_up /\ IF alive' THEN handle_rfrestored
                               ELSE UNCHANGED restores

\* (the unblock branch without bring_iface_up())
handle_event_noup(e) ==
  IF ~((rfkidx < 0 /\ match_rfkill(e.idx)) \/ (rfkidx >= 0 /\ e.idx = rfkidx))
  THEN UNCHANGED <<rfkidx, rfkilled, timerset, ifup, alive, restores>>
  ELSE /\ rfkidx' = e.idx
       /\ IF e.soft THEN rfkilled' = 1 /\ clr_timer
                         /\ UNCHANGED <<ifup, alive, restores>>
          ELSE rfkilled' = 0 /\ handle_rfrestored
               /\ UNCHANGED <<timerset, ifup, alive>>

\* (no index filter once a radio is adopted)
handle_event_anyidx(e) ==
  IF ~(rfkidx >= 0 \/ match_rfkill(e.idx))
  THEN UNCHANGED <<rfkidx, rfkilled, timerset, ifup, alive, restores>>
  ELSE /\ rfkidx' = IF rfkidx < 0 THEN e.idx ELSE rfkidx
       /\ IF e.soft THEN rfkilled' = 1 /\ clr_timer
                         /\ UNCHANGED <<ifup, alive, restores>>
          ELSE rfkilled' = 0 /\ unkilled
               /\ UNCHANGED timerset

\* handle_event(): with no radio adopted, adopt this one if match_rfkill()
\* (which ignores the index) holds, else drop the event; with one adopted,
\* drop events of other radios.  Then blocked: rfkilled = 1 and
\* clr_timer(); unblocked: rfkilled = 0, bring_iface_up(),
\* handle_rfrestored().
handle_event(e) ==
  IF ~((rfkidx < 0 /\ match_rfkill(e.idx)) \/ (rfkidx >= 0 /\ e.idx = rfkidx))
  THEN UNCHANGED <<rfkidx, rfkilled, timerset, ifup, alive, restores>>
  ELSE /\ rfkidx' = e.idx
       /\ IF e.soft THEN rfkilled' = 1 /\ clr_timer
                         /\ UNCHANGED <<ifup, alive, restores>>
          ELSE rfkilled' = 0 /\ unkilled
               /\ UNCHANGED timerset

\* One read() of handle_rfkill()'s loop, from check_rfkill() on POLLIN:
\* events of other types are skipped.  The kernel hands over whole events,
\* so the short-read skip is not taken.  The loop ends when the queue is
\* empty (EAGAIN).
Read ==
  /\ alive /\ rfkill > 0 /\ queue # <<>>
  /\ queue' = Tail(queue)
  /\ IF Head(queue).type # WLAN
     THEN UNCHANGED <<rfkidx, rfkilled, timerset, ifup, alive, restores>>
     ELSE handle_event(Head(queue))
  /\ UNCHANGED <<kind, matched, blocked, rfkill, toggles>>

\* (the fd reset to 0 rather than -1)
RfkillError_zero ==
  /\ alive /\ rfkill > 0
  /\ rfkill' = 0 /\ queue' = <<>>
  /\ UNCHANGED <<kind, matched, blocked, rfkidx, rfkilled, timerset, ifup,
                 alive, restores, toggles>>

\* check_rfkill() on an error revent: close the fd, rfkill = -1.  Nothing
\* in the repository calls retry_rfkill() again after start.
RfkillError ==
  /\ alive /\ rfkill > 0
  /\ rfkill' = -1 /\ queue' = <<>>
  /\ UNCHANGED <<kind, matched, blocked, rfkidx, rfkilled, timerset, ifup,
                 alive, restores, toggles>>

\* set_timer(), called by the connection code.
set_timer ==
  /\ alive /\ ~timerset /\ timerset' = TRUE
  /\ UNCHANGED <<kind, matched, blocked, queue, rfkill, rfkidx, rfkilled,
                 ifup, alive, restores, toggles>>

\* The kernel: a radio is blocked or unblocked (soft or hard); Ours being
\* blocked takes the interface down; an event is queued on an open fd.
Toggle(i) ==
  /\ toggles < MaxToggles
  /\ toggles' = toggles + 1
  /\ blocked' = [blocked EXCEPT ![i] = ~@]
  /\ ifup' = (ifup /\ ~(i = Ours /\ blocked'[i]))
  /\ queue' = IF rfkill > 0 THEN Append(queue, Event(i, blocked')) ELSE queue
  /\ UNCHANGED <<kind, matched, rfkill, rfkidx, rfkilled, timerset, alive,
                 restores>>

\* The state after retry_rfkill() in main(): the open succeeds, queuing an
\* ADD event per radio, or fails; rfkidx = -1 either way.  The kernel
\* keeps the interface down while Ours is blocked.
Init ==
  /\ kind \in Kinds
  /\ matched \in BOOLEAN
  /\ blocked \in [Radios -> BOOLEAN]
  /\ rfkill \in {RfFd, -1}
  /\ queue = IF rfkill > 0 THEN AddEvents ELSE <<>>
  /\ rfkidx = -1 /\ rfkilled = 0
  /\ timerset = FALSE
  /\ ifup \in IF blocked[Ours] THEN {FALSE} ELSE BOOLEAN
  /\ alive = TRUE /\ restores = 0 /\ toggles = 0

Next ==
  \/ Read \/ RfkillError \/ set_timer
  \/ \E i \in Radios : Toggle(i)

Spec == Init /\ [][Next]_rvars /\ WF_rvars(Read)

-----------------------------------------------------------------------------
TypeOK ==
  /\ blocked \in [Radios -> BOOLEAN]
  /\ rfkill \in {RfFd, -1}
  /\ rfkidx \in Radios \cup {-1}
  /\ rfkilled \in {0, 1}
  /\ {matched, timerset, ifup, alive} \subseteq BOOLEAN
  /\ restores \in Nat /\ toggles \in 0 .. MaxToggles

(***************************************************************************)
(* Once handle_rfkill() has drained the fd, rfkilled is the kernel's      *)
(* state of the adopted radio, whatever the order of blocks and unblocks  *)
(* of several radios, the ADD events of open and the reads in between.    *)
(* This is about handle_event()'s filter on re->idx != rfkidx, and        *)
(* handle_rfkill() taking every queued event in turn.                      *)
(***************************************************************************)
RfkilledTracksAdopted ==
  (alive /\ rfkill > 0 /\ queue = <<>> /\ rfkidx >= 0)
    => ((rfkilled = 1) = blocked[rfkidx])

(***************************************************************************)
(* When the adopted radio is ours and it is unblocked while the interface *)
(* is down, the interface comes up (or the radio is blocked again, the fd *)
(* is lost, or wsupp quits): the kernel does not do it, so it is          *)
(* handle_event()'s bring_iface_up() on the unblock event that must.      *)
(***************************************************************************)
UnkillBringsUp ==
  (alive /\ rfkill > 0 /\ rfkidx = Ours /\ ~blocked[Ours] /\ ~ifup)
    ~> (ifup \/ blocked[Ours] \/ rfkill = -1 \/ ~alive)
====
