------------------------------- MODULE StaIes -------------------------------
(***************************************************************************)
(* The information-element parser of wsupp_sta_ies.c.  parse_station_ies  *)
(* walks a scan result's IE buffer element by element; each iteration of  *)
(* its loop is one step here, so the walk is checked to end and its      *)
(* result is compared, once it has ended, with a reference decoder        *)
(* written from spec 4.5 and IEEE 802.11-2012 8.4.2 and 8.4.2.27.         *)
(*                                                                         *)
(* Buffers are byte sequences and offsets are 0-based, as in the code.  A *)
(* scan entry is the part of struct scan the parser writes: the SSID (its *)
(* first slen bytes, the only ones any reader uses) and the type bits, as *)
(* a set of flag names.                                                    *)
(***************************************************************************)
EXTENDS Integers, SequencesExt

CONSTANTS
  Inputs        \* the IE buffers a scan result may carry

VARIABLES
  buf,          \* the buffer being parsed
  ptr,          \* offset of the next element (ptr - buf)
  sc,           \* the scan entry: [ssid, type]
  pc            \* "loop" while in the while loop, "done" once it returned

vars == <<buf, ptr, sc, pc>>

Flags == {"WPA", "WPS", "RSN_P_TKIP", "RSN_P_CCMP", "RSN_G_TKIP", "RSN_G_CCMP", "RSN_PSK"}

\* C's s[i], for a 0-based offset i.
At(s, i) == s[i + 1]

-----------------------------------------------------------------------------
(* The decoders, on the payload s of one element; e is Len(s).            *)

\* get2le: two bytes little-endian, or 0 if p + 3 > e.
get2le(s, p) == IF p + 3 > Len(s) THEN 0 ELSE At(s, p) + 256 * At(s, p + 1)

\* (a bound one byte too strict)
get4be_strict(s, p) ==
  IF p + 4 >= Len(s) THEN 0
  ELSE ((At(s, p) * 256 + At(s, p + 1)) * 256 + At(s, p + 2)) * 256 + At(s, p + 3)

\* get4be: four bytes big-endian, or 0 if p + 4 > e.
get4be(s, p) ==
  IF p + 4 > Len(s) THEN 0
  ELSE ((At(s, p) * 256 + At(s, p + 1)) * 256 + At(s, p + 2)) * 256 + At(s, p + 3)

\* Suite selectors 0x000FAC02 (TKIP, or PSK as an AKM) and 0x000FAC04.
SuiteTKIP == 1027074
SuiteCCMP == 1027076
PairFlag == (SuiteTKIP :> "RSN_P_TKIP") @@ (SuiteCCMP :> "RSN_P_CCMP")
GroupFlag == (SuiteTKIP :> "RSN_G_TKIP") @@ (SuiteCCMP :> "RSN_G_CCMP")

\* parse_rsn_ie: version, group suite, pairwise count and suites, AKM
\* count and suites; the count of AKMs is read after 4*pcnt bytes of
\* pairwise suites.  Fields past the end read as 0.
parse_rsn_ie(type, s) ==
  LET pcnt == get2le(s, 6)
      acnt == get2le(s, 8 + 4 * pcnt)
      pair == {get4be(s, 8 + 4 * j) : j \in 0 .. pcnt - 1}
      akm  == {get4be(s, 10 + 4 * pcnt + 4 * j) : j \in 0 .. acnt - 1}
  IN IF get2le(s, 0) # 1 THEN type
     ELSE type \cup {PairFlag[x] : x \in pair \cap DOMAIN PairFlag}
               \cup {GroupFlag[x] : x \in {get4be(s, 2)} \cap DOMAIN GroupFlag}
               \cup (IF SuiteTKIP \in akm THEN {"RSN_PSK"} ELSE {})

\* parse_vendor: the Microsoft OUI 00 50 F2, subtype 1 (WPA) or 4 (WPS).
parse_vendor(type, s) ==
  IF Len(s) < 4 \/ SubSeq(s, 1, 3) # <<0, 80, 242>> THEN type
  ELSE CASE At(s, 3) = 1 -> type \cup {"WPA"}
         [] At(s, 3) = 4 -> type \cup {"WPS"}
         [] OTHER        -> type

\* (the copy not limited to sizeof(sc->ssid))
set_station_ssid_noclamp(e, s) ==
  [e EXCEPT !.ssid = SubSeq(s, 1, Max({0} \cup {i \in DOMAIN s : s[i] # 0}))]

\* set_station_ssid: copy at most sizeof(sc->ssid) = 32 bytes, and set
\* slen past the last non-zero byte of them.
set_station_ssid(e, s) ==
  LET cp   == SubSeq(s, 1, IF Len(s) > 32 THEN 32 ELSE Len(s))
      slen == Max({0} \cup {i \in DOMAIN cp : cp[i] # 0})
  IN [e EXCEPT !.ssid = SubSeq(cp, 1, slen)]

-----------------------------------------------------------------------------
(* parse_station_ies: while(ptr < end), one element per iteration.        *)

\* ie->len, and whether the element lies inside the buffer.  With one byte
\* left, ie->len is read from past the end of the buffer; whatever that
\* byte holds, ptr + ielen > end, so the loop breaks either way.
IeLen == At(buf, ptr + 1)
IeFits == ptr + 1 < Len(buf) /\ ptr + 2 + IeLen <= Len(buf)
Payload == SubSeq(buf, ptr + 3, ptr + 2 + IeLen)

\* (ptr advanced by ie->len alone, without the two header bytes)
ParseIE_nohdr ==
  /\ pc = "loop" /\ ptr < Len(buf) /\ IeFits
  /\ sc' = CASE At(buf, ptr) = 0   -> set_station_ssid(sc, Payload)
             [] At(buf, ptr) = 48  -> [sc EXCEPT !.type = parse_rsn_ie(@, Payload)]
             [] At(buf, ptr) = 221 -> [sc EXCEPT !.type = parse_vendor(@, Payload)]
             [] OTHER              -> sc
  /\ ptr' = ptr + IeLen
  /\ UNCHANGED <<buf, pc>>

\* An element that fits: dispatch on ie->type, then ptr += ielen.
ParseIE ==
  /\ pc = "loop" /\ ptr < Len(buf) /\ IeFits
  /\ sc' = CASE At(buf, ptr) = 0   -> set_station_ssid(sc, Payload)
             [] At(buf, ptr) = 48  -> [sc EXCEPT !.type = parse_rsn_ie(@, Payload)]
             [] At(buf, ptr) = 221 -> [sc EXCEPT !.type = parse_vendor(@, Payload)]
             [] OTHER              -> sc
  /\ ptr' = ptr + 2 + IeLen
  /\ UNCHANGED <<buf, pc>>

\* if(ptr + ielen > end) break;
IeBreak ==
  /\ pc = "loop" /\ ptr < Len(buf) /\ ~IeFits
  /\ pc' = "done"
  /\ UNCHANGED <<buf, ptr, sc>>

\* The loop condition fails at the end of the buffer.
LoopEnd ==
  /\ pc = "loop" /\ ptr >= Len(buf)
  /\ pc' = "done"
  /\ UNCHANGED <<buf, ptr, sc>>

Init ==
  /\ buf \in Inputs
  /\ ptr = 0
  /\ sc = [ssid |-> <<>>, type |-> {}]
  /\ pc = "loop"

Next == ParseIE \/ IeBreak \/ LoopEnd

\* The parser is a plain function call: once called it runs to its return.
Spec == Init /\ [][Next]_vars /\ WF_vars(Next)

-----------------------------------------------------------------------------
(* The reference decoder, from spec 4.5 and IEEE 802.11-2012 8.4.2.       *)

\* The elements of a buffer: an id byte, a length byte and that many bytes
\* of body; an element that does not fit in what is left ends the list.
RECURSIVE Elements(_)
Elements(b) ==
  IF Len(b) < 2 \/ Len(b) < 2 + b[2] THEN <<>>
  ELSE <<[id |-> b[1], body |-> SubSeq(b, 3, 2 + b[2])]>>
       \o Elements(SubSeq(b, 3 + b[2], Len(b)))

LE16(s, i) == s[i + 1] + 256 * s[i + 2]
Suite(s, i) == SubSeq(s, i + 1, i + 4)
Cipher == [t \in {2, 4} |-> <<0, 15, 172, t>>]

\* An RSNE: version 1, then optionally a group suite, a pairwise count
\* with its suites, an AKM count with its suites, capabilities.  A count
\* whose suites do not all fit makes the element malformed, and a
\* malformed or other-version element is ignored.
RefRsn(s) ==
  LET n  == Len(s)
      np == IF n >= 8 THEN LE16(s, 6) ELSE 0
      na == IF n >= 10 + 4 * np THEN LE16(s, 8 + 4 * np) ELSE 0
      pairs == {Suite(s, 8 + 4 * j) : j \in 0 .. np - 1}
      akms  == {Suite(s, 10 + 4 * np + 4 * j) : j \in 0 .. na - 1}
      cut == \/ n < 2 \/ n \in 3 .. 5 \/ n = 7 \/ n = 9 + 4 * np
             \/ n \in 8 .. 7 + 4 * np \/ n \in 10 + 4 * np .. 9 + 4 * np + 4 * na
  IN IF cut \/ LE16(s, 0) # 1 THEN {}
     ELSE (IF n >= 6 /\ Suite(s, 2) = Cipher[2] THEN {"RSN_G_TKIP"} ELSE {})
          \cup (IF n >= 6 /\ Suite(s, 2) = Cipher[4] THEN {"RSN_G_CCMP"} ELSE {})
          \cup (IF Cipher[2] \in pairs THEN {"RSN_P_TKIP"} ELSE {})
          \cup (IF Cipher[4] \in pairs THEN {"RSN_P_CCMP"} ELSE {})
          \cup (IF Cipher[2] \in akms THEN {"RSN_PSK"} ELSE {})

\* A vendor element: OUI 00 50 F2 and subtype 1 is WPA, 4 is WPS.
RefVendor(s) ==
  IF Len(s) >= 4 /\ Suite(s, 0) = <<0, 80, 242, 1>> THEN {"WPA"}
  ELSE IF Len(s) >= 4 /\ Suite(s, 0) = <<0, 80, 242, 4>> THEN {"WPS"} ELSE {}

RefType(b) ==
  UNION {CASE e.id = 48 -> RefRsn(e.body) [] e.id = 221 -> RefVendor(e.body) [] OTHER -> {}
         : e \in ToSet(Elements(b))}

\* The SSID: the body of the SSID element, at most 32 bytes.
RefSsid(b) ==
  LET ss == SelectSeq(Elements(b), LAMBDA e : e.id = 0)
      body == IF ss = <<>> THEN <<>> ELSE Last(ss).body
  IN SubSeq(body, 1, IF Len(body) > 32 THEN 32 ELSE Len(body))

-----------------------------------------------------------------------------
(* Properties                                                              *)

TypeOK ==
  /\ buf \in Seq(0 .. 255) /\ ptr \in 0 .. Len(buf)
  /\ sc.type \subseteq Flags /\ Len(sc.ssid) <= 32
  /\ pc \in {"loop", "done"}

\* parse_station_ies returns on every buffer, however it is cut.
Terminates == <>(pc = "done")

\* When parse_station_ies returns, the scan entry holds what the reference
\* decoder reads from the same buffer: every flag of every RSN and vendor
\* element that lies in the buffer, and the SSID.  The inputs cut buffers
\* at every byte and end RSN elements after each optional field, where
\* get2le's bound (p + 3 > e) and the pcnt-dependent offsets bite.
ParsedAsReference ==
  pc = "done" => sc.type = RefType(buf) /\ sc.ssid = RefSsid(buf)
=============================================================================
