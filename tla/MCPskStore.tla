----------------------------- MODULE MCPskStore -----------------------------
(***************************************************************************)
(* Instances of PskStore for TLC.  SSIDs are byte sequences chosen to     *)
(* exercise each branch of fmt_ssid: a plain byte, a space, a backslash    *)
(* and a control byte, and one SSID longer than the line buffer of        *)
(* save_psk can hold.                                                      *)
(***************************************************************************)
EXTENDS PskStore

SsidA    == <<97>>            \* "a"
SsidASp  == <<97, 32>>        \* "a "
SsidBsTab == <<92, 9>>        \* "\\\t"
SsidLong == [i \in 1..30 |-> 98]   \* thirty "b"s, within the 32-byte limit

\* A line as the daemon writes it, and one a user wrote in lower case.
Saved(s, k) == [chunks |-> <<fmt_bytes(k), fmt_ssid(s, 65, 99)>>, nl |-> TRUE]
LowerCase(s) == [chunks |-> <<[i \in 1..64 |-> 97], fmt_ssid(s, 0, 100)>>,
                 nl |-> TRUE]

MCSsids == {SsidA, SsidASp, SsidBsTab}
MCFiles == {<<>>, <<Saved(SsidA, 1)>>, <<LowerCase(SsidBsTab), Saved(SsidASp, 2)>>}

LongSsids == {SsidA, SsidLong}
FaultSsids == {SsidA, SsidBsTab}
EmptyFile == {<<>>}

\* A file whose last line has no '\n', as an editor may leave it.
UnterminatedFiles == {<<Saved(SsidA, 1), [Saved(SsidASp, 2) EXCEPT !.nl = FALSE]>>}
UnterminatedOne == {<<[Saved(SsidA, 1) EXCEPT !.nl = FALSE]>>}
UnterminatedAll == UnterminatedFiles \cup UnterminatedOne
AllFiles == MCFiles \cup UnterminatedAll

\* The two edges of the line format together: an SSID too long for the
\* line buffer of save_psk, and files whose last line has no '\n'.
EdgeSsids == {SsidA, SsidASp, SsidLong}
EdgeFiles == EmptyFile \cup UnterminatedAll
=============================================================================
