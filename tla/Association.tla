---------------------------- MODULE Association ----------------------------
(***************************************************************************)
(* What wsupp promises of its link to an access point, whatever frames    *)
(* the air brings: the station goes from AS_IDLE to AS_CONNECTING, from   *)
(* there to AS_CONNECTED or back, and from AS_CONNECTED back to AS_IDLE.  *)
(* It holds keys only while connected.  It takes the PTK the AP derived   *)
(* in the step that connects it and keeps that PTK until the link ends.   *)
(* It only moves to a group key the AP has issued, and never to an older  *)
(* one.  The AP's keys belong to the environment, and a step of the AP    *)
(* may change them.  Group keys are numbered in the order the AP issues   *)
(* them, from 1; 0 is no key.                                             *)
(***************************************************************************)
EXTENDS Naturals

CONSTANT NoKey          \* no pairwise key

VARIABLES
  state,                \* AS_IDLE, AS_CONNECTING or AS_CONNECTED
  ptk,                  \* the pairwise key the station uses, or NoKey
  gtk,                  \* the group key the station uses, or 0
  apPtk,                \* the pairwise key the AP derived last
  apGtk                 \* the group key the AP issued last

avars == <<state, ptk, gtk, apPtk, apGtk>>

Issued(g) == g \in 1..apGtk

Init == state = "AS_IDLE" /\ ptk = NoKey /\ gtk = 0

Connect ==
  /\ state = "AS_IDLE" /\ state' = "AS_CONNECTING"
  /\ UNCHANGED <<ptk, gtk, apPtk, apGtk>>

Establish ==
  /\ state = "AS_CONNECTING" /\ state' = "AS_CONNECTED"
  /\ ptk' = apPtk /\ Issued(gtk')
  /\ UNCHANGED <<apPtk, apGtk>>

Rekey ==
  /\ state = "AS_CONNECTED"
  /\ Issued(gtk') /\ gtk' >= gtk
  /\ UNCHANGED <<state, ptk, apPtk, apGtk>>

Drop ==
  /\ state # "AS_IDLE" /\ state' = "AS_IDLE"
  /\ ptk' = NoKey /\ gtk' = 0
  /\ UNCHANGED <<apPtk, apGtk>>

AccessPoint == UNCHANGED <<state, ptk, gtk>>

Next == Connect \/ Establish \/ Rekey \/ Drop \/ AccessPoint

Spec == Init /\ [][Next]_avars
=============================================================================
