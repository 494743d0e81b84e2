------------------------------ MODULE PskStore ------------------------------
(***************************************************************************)
(* The PSK store of wsupp_config.c: the text file of "<hex-psk> <ssid>"   *)
(* lines, loaded lazily into a buffer that save_psk and drop_psk edit in  *)
(* place and save_config writes back.                                     *)
(*                                                                         *)
(* A buffer is a sequence of lines; a line is what split_line cuts it     *)
(* into (its whitespace-separated chunks, as byte sequences) and whether   *)
(* a '\n' ends it, which only the last line of a file may lack.  The     *)
(* escaping of SSIDs and the 100-byte line buffer of save_psk are         *)
(* modelled byte by byte, because which SSIDs round-trip depends on them.  *)
(* A PSK k stands for the 32-byte key whose bytes all equal 0xkk, so its  *)
(* text is 64 copies of one hex digit.  The buffer's memory is modelled  *)
(* by its sizes: datalen, blocklen and the pages actually mapped, as       *)
(* mmap_config_buf, extend_config, remap_config and mremap change them.   *)
(***************************************************************************)
EXTENDS Integers, SequencesExt

CONSTANTS
  Ssids,        \* the SSIDs callers use, as byte sequences
  Psks,         \* the PSKs callers use, as values 0..15
  InitFiles,    \* the possible contents of the file at start, as lines
  MaxLines,     \* bound: save_psk does not grow the buffer past this
  ReadFails,    \* load_config may fail in mmap or read, remap_config in mremap
  PowerLosses,  \* bound: times the machine stops while save_config writes
  Page,         \* PAGE, the unit mmap_config_buf and remap_config round to
  Slack         \* the 1024 bytes mmap_config_buf maps beyond the file

ASSUME Psks \subseteq 0..15 /\ MaxLines \in Nat
ASSUME ReadFails \in BOOLEAN /\ PowerLosses \in Nat
ASSUME Page \in Nat \ {0} /\ Slack \in Nat

VARIABLES
  config,       \* the loaded buffer, or NoConfig
  modified,     \* config differs from what was last written
  disk,         \* the file, as lines
  alive,        \* the daemon has not faulted
  last,         \* ghost: the last save_psk or drop_psk that reported success
  losses,       \* power losses so far
  datalen,      \* bytes of data in the buffer
  blocklen,     \* the size of the buffer as the code records it
  maplen        \* the size of the mapping config points to

vars == <<config, modified, disk, alive, last, losses, datalen, blocklen, maplen>>

NoConfig == "NULL"
NoPsk == -1
Unreadable == -2    \* a line of the SSID whose key text does not parse

Line == [chunks : Seq(Seq(0..255)), nl : BOOLEAN]
\* Lines are cut at '\n', so only the last one can lack it.
Buffer == {b \in Seq(Line) : \A i \in 1..Len(b) - 1 : b[i].nl}

\* The bytes of a line's text (its chunks with one separator between them,
\* as every file of the models is written), of a line with its '\n', and
\* of a buffer.
PartLen(chunks) == Len(FlattenSeq(chunks)) + (IF chunks = <<>> THEN 0 ELSE Len(chunks) - 1)
LineLen(ln) == PartLen(ln.chunks) + (IF ln.nl THEN 1 ELSE 0)
TextLen(buf) == FoldSeq(LAMBDA ln, n : n + LineLen(ln), 0, buf)

-----------------------------------------------------------------------------
(* Formatting and parsing                                                  *)

\* digits[] = "0123456789ABCDEF"
HexDigit(v) == IF v < 10 THEN 48 + v ELSE 55 + v
\* strchr(digits, c) - digits, or -1 where strchr returns NULL.
DigitValue(c) == CASE c \in 48..57 -> c - 48 [] c \in 65..70 -> c - 55 [] OTHER -> -1

\* One SSID byte as fmt_ssid writes it.
Escape(b) ==
  CASE b = 92 -> <<92, 92>>
    [] b = 32 -> <<92, 32>>
    [] b <= 32 -> <<92, 120, HexDigit(b \div 16), HexDigit(b % 16)>>
    [] OTHER -> <<b>>

\* fmt_ssid from offset p of a buffer whose end pointer is at offset e:
\* it stops before any byte once fewer than six bytes are left.
RECURSIVE fmt_ssid(_, _, _)
fmt_ssid(ssid, p, e) ==
  IF ssid = <<>> \/ p + 5 >= e THEN <<>>
  ELSE LET x == Escape(Head(ssid))
       IN x \o fmt_ssid(Tail(ssid), p + Len(x), e)

\* fmt_bytes of the 32-byte key 0xkk..kk: 64 digits, well inside buf[100].
fmt_bytes(k) == [i \in 1..64 |-> HexDigit(k)]

\* parse_bytes of a PSK chunk: exactly 64 upper-case hex digits.
parse_bytes(t) ==
  IF Len(t) = 64 /\ \A c \in Range(t) : DigitValue(c) >= 0
  THEN DigitValue(t[1])
  ELSE NoPsk

find_line_prefix(buf, name) ==
  SelectInSeq(buf, LAMBDA l : Len(l.chunks) >= 2 /\ IsPrefix(name, l.chunks[2]))

\* find_line(ln, 1, name): the first line with at least two chunks whose
\* second chunk is name; 0 when there is none.
find_line(buf, name) ==
  SelectInSeq(buf, LAMBDA l : Len(l.chunks) >= 2 /\ l.chunks[2] = name)

\* find_ssid formats into buf[3*32+5] with e = buf + sizeof(buf) - 1.
SsidText == [s \in Ssids |-> fmt_ssid(s, 0, 100)]
find_ssid(buf, s) == find_line(buf, SsidText[s])

\* The line save_psk builds in buf[100]: the key, a space, and the SSID
\* from offset 65 with e = buf + 99.  fmt_ssid escapes every space, so the
\* SSID text is one chunk.
SavedName == [s \in Ssids |-> fmt_ssid(s, 65, 99)]
SavedChunks(s, k) ==
  IF SavedName[s] = <<>> THEN <<fmt_bytes(k)>> ELSE <<fmt_bytes(k), SavedName[s]>>
\* p - buf: 64 digits, a space, the name.
SavedLen(s) == 65 + Len(SavedName[s])

-----------------------------------------------------------------------------
(* Buffer edits                                                            *)

\* change_part: the line's text is replaced; its '\n' stays.
change_part(buf, i, chunks) == [buf EXCEPT ![i].chunks = chunks]

insert_line_nonl(buf, chunks) ==
  Append(buf, [chunks |-> chunks, nl |-> FALSE])

\* insert_line copies the text and a '\n' to the end of the data.  After a
\* last line with no '\n', the new text continues that line.
insert_line(buf, chunks) ==
  IF buf = <<>> \/ Last(buf).nl
  THEN Append(buf, [chunks |-> chunks, nl |-> TRUE])
  ELSE LET c == Last(buf).chunks
           joined == IF c = <<>> THEN chunks
                     ELSE Front(c) \o <<Last(c) \o Head(chunks)>> \o Tail(chunks)
       IN Append(Front(buf), [chunks |-> joined, nl |-> TRUE])

\* drop_line of a line that has its '\n': the line and the '\n' go.
drop_line(buf, i) == RemoveAt(buf, i)

save_line_append(buf, i, chunks) == insert_line(buf, chunks)

save_line(buf, i, chunks) ==
  IF i # 0 THEN change_part(buf, i, chunks) ELSE insert_line(buf, chunks)

-----------------------------------------------------------------------------
(* load_config, and the buffer's memory                                    *)

\* The buffer a successful load_config leaves: the loaded one, or the file.
Buf == IF config = NoConfig THEN disk ELSE config

\* x rounded up to whole pages, as mmap_config_buf and remap_config round
\* it and as mremap rounds the lengths it is given.
PageAlign(x) == x + ((Page - (x % Page)) % Page)

\* The sizes of Buf: a load maps filesize + 1024 bytes rounded to pages
\* and reads filesize bytes.
LoadSizes(f) == [ok |-> TRUE, moved |-> FALSE, dl |-> TextLen(f),
                 bl |-> PageAlign(TextLen(f) + Slack), ml |-> PageAlign(TextLen(f) + Slack)]
Kept == IF config = NoConfig THEN LoadSizes(disk)
        ELSE [ok |-> TRUE, moved |-> FALSE, dl |-> datalen, bl |-> blocklen, ml |-> maplen]
Refused == [Kept EXCEPT !.ok = FALSE]

SetSizes(r) == datalen' = r.dl /\ blocklen' = r.bl /\ maplen' = r.ml
Freed == datalen' = 0 /\ blocklen' = 0 /\ maplen' = 0

\* remap_config(len): mremap from blocklen to blocklen + len rounded to
\* pages, then blocklen = len.  The kernel rounds the old length up to
\* pages; a mapping longer than that keeps its tail where it is, so the
\* remap cannot grow in place and moves (MREMAP_MAYMOVE lets it move in
\* any case).  With ReadFails, mremap may fail.
remap_config(len) ==
  {[ok |-> TRUE, moved |-> mv, dl |-> Kept.dl, bl |-> len,
    ml |-> PageAlign(Kept.bl + PageAlign(len))]
     : mv \in IF Kept.ml = PageAlign(Kept.bl) THEN BOOLEAN ELSE {TRUE}}
  \cup (IF ReadFails THEN {Refused} ELSE {})

\* (the increment handed to remap_config in place of the new length)
extend_config_inc(len) ==
  LET newdl == Kept.dl + len
  IN IF newdl < 0 THEN {Refused}
     ELSE IF newdl > Kept.bl
          THEN {IF r.ok THEN [r EXCEPT !.dl = newdl] ELSE r : r \in remap_config(len)}
          ELSE {[Kept EXCEPT !.dl = newdl]}

\* extend_config(len): the outcomes, as sizes and whether the mapping
\* moved.  A negative data length is refused; past blocklen it remaps.
extend_config(len) ==
  LET newdl == Kept.dl + len
  IN IF newdl < 0 THEN {Refused}
     ELSE IF newdl > Kept.bl
          THEN {IF r.ok THEN [r EXCEPT !.dl = newdl] ELSE r : r \in remap_config(newdl)}
          ELSE {[Kept EXCEPT !.dl = newdl]}

\* The buffer when insert_line's bytes went astray: n zero bytes of the
\* fresh pages, and no '\n', stand where the line and its '\n' should be.
ZeroTail(buf, n) ==
  LET b == insert_line(buf, <<[j \in 1..n |-> 0]>>)
  IN [b EXCEPT ![Len(b)].nl = FALSE]
\* mmap_config_buf clears modified on a fresh load.
ModifiedAfterLoad == config # NoConfig /\ modified

\* load_config failing: mmap_config_buf fails and nothing is mapped, or the
\* read fails after mmap_config_buf has set config, blocklen and datalen 0.
load_config_fails ==
  /\ ReadFails
  /\ config = NoConfig
  /\ \/ UNCHANGED <<config, modified, datalen, blocklen, maplen>>
     \/ /\ config' = <<>> /\ modified' = FALSE
        /\ SetSizes([LoadSizes(disk) EXCEPT !.dl = 0])
  /\ UNCHANGED <<disk, alive, last, losses>>

\* load_config succeeding, as the query got_psk_for and load_psk do it.
load_config ==
  /\ alive
  /\ \/ /\ config = NoConfig
        /\ config' = Buf /\ modified' = ModifiedAfterLoad
        /\ SetSizes(Kept)
     \/ load_config_fails
  /\ UNCHANGED <<disk, alive, last, losses>>

-----------------------------------------------------------------------------
(* Operations                                                              *)

\* The length change save_line asks of extend_config: change_part swaps
\* the line's text for the new one, insert_line adds the text and a '\n'.
SaveShift(buf, i, s) ==
  IF i # 0 THEN SavedLen(s) - PartLen(buf[i].chunks) ELSE SavedLen(s) + 1

\* insert_line takes at = config + datalen before extend_config.  After a
\* remap that moved the mapping, at points into the old pages, which
\* mremap unmapped, and the daemon faults on the write; only if datalen
\* ended exactly at their end does at point past them (at the tail the
\* remap left behind, or whatever lies there), and the write may land
\* unseen while the buffer grows by zero bytes of the fresh pages.
StaleInsert(buf, n) ==
  /\ alive' \in IF Kept.dl = PageAlign(Kept.bl) THEN BOOLEAN ELSE {FALSE}
  /\ config' = IF alive' THEN ZeroTail(buf, n) ELSE buf

\* save_psk: format the line, load, then replace the first line of the
\* SSID or append one.  save_line marks the buffer modified whether or not
\* extend_config succeeded.  Callers are told nothing.
save_psk(s, k) ==
  /\ alive
  /\ \/ load_config_fails
     \/ LET i == find_ssid(Buf, s)
        IN /\ i # 0 \/ Len(Buf) < MaxLines
           /\ \E r \in extend_config(SaveShift(Buf, i, s)) :
                /\ SetSizes(r)
                /\ \/ ~r.ok /\ config' = Buf /\ UNCHANGED alive
                   \/ /\ r.ok /\ (i # 0 \/ ~r.moved)
                      /\ config' = save_line(Buf, i, SavedChunks(s, k))
                      /\ UNCHANGED alive
                   \/ r.ok /\ i = 0 /\ r.moved /\ StaleInsert(Buf, SavedLen(s) + 1)
           /\ modified' = TRUE
           /\ last' = <<"save", s, k>>
           /\ UNCHANGED <<disk, losses>>

\* drop_psk: load, find, drop_line.  A missing SSID returns -1.  drop_line
\* removes the line and the byte after it; for a last line with no '\n'
\* that byte does not exist: extend_config refuses the negative length
\* when it is the only line (and drop_psk still returns 0), and otherwise
\* the memmove length config + datalen - end - 1 is -1.
drop_psk(s) ==
  /\ alive
  /\ \/ load_config_fails
     \/ LET i == find_ssid(Buf, s)
        IN \/ /\ i = 0
              /\ config' = Buf /\ modified' = ModifiedAfterLoad
              /\ SetSizes(Kept)
              /\ UNCHANGED <<disk, alive, last, losses>>
           \/ /\ i # 0
              /\ \E r \in extend_config(-(PartLen(Buf[i].chunks) + 1)) :
                   /\ SetSizes(r)
                   /\ \/ /\ ~r.ok
                         /\ config' = Buf /\ modified' = ModifiedAfterLoad
                         /\ last' = <<"drop", s>> /\ UNCHANGED alive
                      \/ /\ r.ok /\ Buf[i].nl
                         /\ config' = drop_line(Buf, i) /\ modified' = TRUE
                         /\ last' = <<"drop", s>> /\ UNCHANGED alive
                      \/ /\ r.ok /\ ~Buf[i].nl
                         /\ alive' = FALSE
                         /\ UNCHANGED <<config, modified, last>>
              /\ UNCHANGED <<disk, losses>>

\* The file as a write cut short leaves it: some whole lines, the last of
\* which may have lost its '\n'.
CutShort(buf) ==
  {SubSeq(buf, 1, j) : j \in 0..Len(buf) - 1}
  \cup {Append(SubSeq(buf, 1, j - 1), [buf[j] EXCEPT !.nl = FALSE]) : j \in 1..Len(buf)}

\* save_config, called at the end of every main-loop iteration: open with
\* O_TRUNC, write the data, clear modified.  If the machine stops during
\* the write, the daemon starts again from what reached the file.
save_config ==
  /\ alive /\ config # NoConfig /\ modified
  /\ \/ /\ disk' = config /\ modified' = FALSE
        /\ UNCHANGED <<config, losses, datalen, blocklen, maplen>>
     \/ /\ losses < PowerLosses
        /\ losses' = losses + 1
        /\ disk' \in CutShort(config)
        /\ config' = NoConfig /\ modified' = FALSE
        /\ Freed
  /\ UNCHANGED <<alive, last>>

\* drop_config: flush if modified and release the buffer.
drop_config ==
  /\ alive /\ config # NoConfig
  /\ disk' = IF modified THEN config ELSE disk
  /\ config' = NoConfig /\ modified' = FALSE
  /\ Freed
  /\ UNCHANGED <<alive, last, losses>>

-----------------------------------------------------------------------------
\* load_psk(s) as a caller sees it: the key of the first line of s, or no
\* key when there is none or its text does not parse.
load_psk(buf, s) ==
  LET i == find_ssid(buf, s)
  IN IF i = 0 THEN NoPsk ELSE parse_bytes(buf[i].chunks[1])

\* got_psk_for(s): some line has s as its second chunk.
got_psk_for(buf, s) == find_ssid(buf, s) # 0

\* What got_psk_for and load_psk together tell a caller about s.  (The
\* line is found once and its key text parsed once: a set comprehension
\* binds them to values.)
EntryAt(k) == IF k = NoPsk THEN Unreadable ELSE k
Entry(buf, s) ==
  LET found == {buf[i] : i \in {find_ssid(buf, s)} \ {0}}
  IN IF found = {} THEN NoPsk
     ELSE CHOOSE e \in {EntryAt(parse_bytes(l.chunks[1])) : l \in found} : TRUE

Init ==
  /\ config = NoConfig
  /\ modified = FALSE
  /\ disk \in InitFiles
  /\ alive = TRUE
  /\ last = <<"none">>
  /\ losses = 0
  /\ datalen = 0 /\ blocklen = 0 /\ maplen = 0

Next ==
  \/ load_config
  \/ \E s \in Ssids : drop_psk(s) \/ \E k \in Psks : save_psk(s, k)
  \/ save_config
  \/ drop_config

Spec == Init /\ [][Next]_vars

-----------------------------------------------------------------------------
(* Properties                                                              *)

TypeOK ==
  /\ config = NoConfig \/ config \in Buffer
  /\ disk \in Buffer
  /\ modified \in BOOLEAN /\ alive \in BOOLEAN
  /\ {datalen, blocklen, maplen} \subseteq Nat
  /\ last \in {<<"none">>} \cup {<<"drop", s>> : s \in Ssids}
              \cup {<<"save", s, k>> : s \in Ssids, k \in Psks}

\* No SSID has two lines in the buffer or in the file: save_psk replaces
\* the line it finds instead of adding another.
NoDuplicates ==
  \A b \in {Buf, disk} : \A i, j \in DOMAIN b :
    /\ i < j
    /\ Len(b[i].chunks) >= 2
    => ~(Len(b[j].chunks) >= 2 /\ b[j].chunks[2] = b[i].chunks[2])

\* The buffer's sizes stay true to its contents and its memory through any
\* sequence of saves, drops, refused and failed extends, remaps and
\* reloads: datalen is the number of bytes in the lines (change_part's
\* shift, insert_line's len + 1, drop_line's len + 1), the data lies
\* within blocklen, and blocklen within the pages mapped, although
\* remap_config records the length asked for and not the size it mapped.
BufferAccounted ==
  alive /\ config # NoConfig =>
    /\ datalen = TextLen(config)
    /\ datalen <= blocklen
    /\ PageAlign(blocklen) <= maplen

\* The store implements PskMap: after save_psk(s, k) load_psk(s) gives k,
\* after a drop_psk(s) that returned 0 got_psk_for(s) is false, and no
\* other step, a query, a save_config or a drop_config among them, changes
\* what got_psk_for or load_psk say of any SSID.  A daemon that has
\* faulted answers no query, as if it had no keys.
Store == [s \in Ssids |-> IF alive THEN Entry(Buf, s) ELSE NoPsk]
PM == INSTANCE PskMap WITH store <- Store
PskMapRefined == PM!Spec
=============================================================================
