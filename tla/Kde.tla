-------------------------------- MODULE Kde --------------------------------
(***************************************************************************)
(* The key-data walk of wsupp_eapol.c: fetch_gtk() and store_gtk(), which *)
(* recv_packet_3() and recv_group_1() call on the unwrapped key data of    *)
(* an EAPOL frame.  Each pass of fetch_gtk's while loop is one step, and   *)
(* what the walk leaves in GTK and gtkindex is compared, once it has       *)
(* returned, with a reference decoder written from spec 4.3 and IEEE       *)
(* 802.11-2012 11.6.2.                                                     *)
(*                                                                         *)
(* Buffers are byte sequences, offsets 0-based as in the code.  struct    *)
(* kde is { magic, len, type[4], data[] } of bytes: its size is 6 and     *)
(* kd->data starts at offset 6 of the element.  GTK is the part of the    *)
(* array that upload_gtk() uses: 16 bytes, or 32 with a TKIP group.       *)
(***************************************************************************)
EXTENDS Integers, SequencesExt

CONSTANTS
  KeyDatas      \* the unwrapped key data an AP may send

VARIABLES
  buf,          \* the key data being walked (payload + 8 after unwrap_key)
  tkipgroup,    \* ap.tkipgroup
  ptr,          \* offset of the next element (ptr - buf)
  ret,          \* Running in the loop, then fetch_gtk's 0 or -1
  GTK,          \* the global GTK array
  gtkindex      \* the global gtkindex

vars == <<buf, tkipgroup, ptr, ret, GTK, gtkindex>>

\* C's s[i], for a 0-based offset i.
Byte(s, i) == s[i + 1]

\* ret while the loop runs: a value fetch_gtk() never returns.
Running == 1

KdeSize == 6                            \* sizeof(struct kde)
kde_type_gtk == <<0, 15, 172, 1>>       \* 00-0F-AC:1

\* (the TKIP Tx/Rx halves copied as they come)
store_gtk_noswap(idx, key) ==
  IF Len(key) # (IF tkipgroup THEN 32 ELSE 16) THEN ret' = -1 /\ UNCHANGED <<GTK, gtkindex>>
  ELSE ret' = 0 /\ gtkindex' = idx /\ GTK' = key

\* store_gtk(): the key must be exactly 16 bytes, 32 with a TKIP group
\* cipher; then gtkindex = idx and GTK = the key, with the two 8-byte
\* Michael MIC halves swapped for TKIP.
store_gtk(idx, key) ==
  IF Len(key) # (IF tkipgroup THEN 32 ELSE 16) THEN ret' = -1 /\ UNCHANGED <<GTK, gtkindex>>
  ELSE /\ ret' = 0
       /\ gtkindex' = idx
       /\ GTK' = IF tkipgroup THEN SubSeq(key, 1, 16) \o SubSeq(key, 25, 32)
                                                     \o SubSeq(key, 17, 24)
                 ELSE key

\* The element at ptr: kdlen = 2 + kd->len, and ptr moves past it before
\* any test; datalen is what follows the 6-byte header.
KdLen   == 2 + Byte(buf, ptr + 1)
KdEnd   == ptr + KdLen
DataLen == KdLen - KdeSize
Data    == SubSeq(buf, ptr + KdeSize + 1, KdEnd)
IsGtk   == Byte(buf, ptr) = 221 /\ SubSeq(buf, ptr + 3, ptr + 6) = kde_type_gtk

InLoop == ret = Running /\ ptr + KdeSize < Len(buf)

\* while(ptr + sizeof(*kd) < end) fails: return -1.
LoopEnd ==
  /\ ret = Running /\ ~(ptr + KdeSize < Len(buf))
  /\ ret' = -1
  /\ UNCHANGED <<buf, tkipgroup, ptr, GTK, gtkindex>>

\* if(ptr > end) break;  then return -1.
KdeBreak ==
  /\ InLoop /\ KdEnd > Len(buf)
  /\ ret' = -1
  /\ UNCHANGED <<buf, tkipgroup, ptr, GTK, gtkindex>>

\* (continue without the ptr > end test)
KdeSkip_nobreak ==
  /\ InLoop
  /\ ~IsGtk \/ DataLen < 2 + 16
  /\ ptr' = KdEnd
  /\ UNCHANGED <<buf, tkipgroup, ret, GTK, gtkindex>>

\* A wrong magic, a wrong type or datalen < 2 + 16: continue.
KdeSkip ==
  /\ InLoop /\ KdEnd <= Len(buf)
  /\ ~IsGtk \/ DataLen < 2 + 16
  /\ ptr' = KdEnd
  /\ UNCHANGED <<buf, tkipgroup, ret, GTK, gtkindex>>

\* A GTK KDE whose key index (kd->data[0] & 0x3) is 0: return -1.
KdeNoIndex ==
  /\ InLoop /\ KdEnd <= Len(buf)
  /\ IsGtk /\ DataLen >= 2 + 16
  /\ Data[1] % 4 = 0
  /\ ret' = -1
  /\ UNCHANGED <<buf, tkipgroup, ptr, GTK, gtkindex>>

\* The first GTK KDE with a key index: return store_gtk(idx, data + 2).
KdeStore ==
  /\ InLoop /\ KdEnd <= Len(buf)
  /\ IsGtk /\ DataLen >= 2 + 16
  /\ Data[1] % 4 # 0
  /\ store_gtk(Data[1] % 4, SubSeq(Data, 3, DataLen))
  /\ UNCHANGED <<buf, tkipgroup, ptr>>

\* fetch_gtk(payload + 8, paylen - 8), on a fresh connection: GTK and
\* gtkindex as reset_eapol_state() leaves them.
Init ==
  /\ buf \in KeyDatas /\ tkipgroup \in BOOLEAN
  /\ ptr = 0 /\ ret = Running
  /\ GTK = <<>> /\ gtkindex = 0

Next == LoopEnd \/ KdeBreak \/ KdeSkip \/ KdeNoIndex \/ KdeStore

\* fetch_gtk is a plain function call: once called it runs to its return.
Spec == Init /\ [][Next]_vars /\ WF_vars(Next)

-----------------------------------------------------------------------------
(* The reference, from spec 4.3 ("walk KDEs, locate GTK KDE (magic 0xDD, *)
(* OUI 00:0F:AC, type 01), copy GTK (16 or 32 bytes depending on          *)
(* tkipgroup; TKIP swaps the two 8-byte MIC key halves)") and IEEE        *)
(* 802.11-2012 11.6.2: key data is a list of elements, each an id, a      *)
(* length and a body; a KDE is an element 0xDD whose body starts with an *)
(* OUI and a data type; the GTK KDE's data is a key-ID octet (key ID in   *)
(* bits 0-1, non-zero for a group key), a reserved octet and the key;     *)
(* padding is 0xDD followed by zero octets.                               *)

RECURSIVE Elements(_)
Elements(b) ==
  IF Len(b) < 2 \/ Len(b) < 2 + b[2] THEN <<>>
  ELSE <<[id |-> b[1], body |-> SubSeq(b, 3, 2 + b[2])]>>
       \o Elements(SubSeq(b, 3 + b[2], Len(b)))

IsGtkKde(e) == e.id = 221 /\ Len(e.body) >= 4 /\ SubSeq(e.body, 1, 4) = kde_type_gtk

GtkKdes(b) == SelectSeq(Elements(b), IsGtkKde)

\* The key as the driver takes it: TKIP's Tx and Rx MIC keys trade places.
DriverKey(tkip, k) ==
  IF tkip THEN [i \in 1..32 |-> k[IF i > 24 THEN i - 8 ELSE IF i > 16 THEN i + 8 ELSE i]]
  ELSE k

\* The GTK KDE of b as [idx, gtk], or NoGtk if there is none or it is not
\* a key of the group cipher's size with a non-zero ID.
NoGtk == [idx |-> 0, gtk |-> <<>>]
RefGtk(tkip, b) ==
  LET body == Head(GtkKdes(b)).body
      key  == SubSeq(body, 7, Len(body))
  IN IF \/ GtkKdes(b) = <<>> \/ Len(body) < 6 \/ body[5] % 4 = 0
        \/ Len(key) # (IF tkip THEN 32 ELSE 16)
     THEN NoGtk
     ELSE [idx |-> body[5] % 4, gtk |-> DriverKey(tkip, key)]

-----------------------------------------------------------------------------
TypeOK ==
  /\ buf \in Seq(0 .. 255) /\ tkipgroup \in BOOLEAN
  /\ ptr \in 0 .. Len(buf)
  /\ ret \in {Running, 0, -1}
  /\ gtkindex \in 0 .. 3 /\ GTK \in Seq(0 .. 255)

(***************************************************************************)
(* When fetch_gtk() has returned on key data that holds at most one GTK   *)
(* KDE (all the standard allows), it has returned 0 exactly when the      *)
(* reference finds a key, and GTK and gtkindex hold that key and key ID,  *)
(* for both group ciphers: the walk's bounds (the header must fit before  *)
(* end, ptr > end after the jump, datalen < 18), the key-index test and   *)
(* store_gtk()'s length test and TKIP swap, at every cut of the buffer.   *)
(***************************************************************************)
GtkFetchedAsReference ==
  ret # Running /\ Len(GtkKdes(buf)) <= 1 =>
    /\ (ret = 0) = (RefGtk(tkipgroup, buf) # NoGtk)
    /\ ret = 0 => [idx |-> gtkindex, gtk |-> GTK] = RefGtk(tkipgroup, buf)
=============================================================================
