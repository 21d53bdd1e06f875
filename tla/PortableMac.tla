----------------------------- MODULE PortableMac -----------------------------
(***************************************************************************)
(* The message poly1305_blocks is given by the portable path of            *)
(* src/chacha20poly1305.c: the buffer of poly1305_update, the padding of   *)
(* pad16 and the order of tag_portable.  A byte is any value.  The         *)
(* arithmetic on the blocks is PortablePoly1305.                           *)
(***************************************************************************)
EXTENDS Integers, Sequences

CONSTANT
  BlockLen   \* 16

ASSUME BlockAssumption == BlockLen \in Nat /\ BlockLen > 1 /\ BlockLen % 2 = 0

\* No byte in the buffer and none given to poly1305_blocks.
Fresh == [absorbed |-> <<>>, buf |-> <<>>]

From(m, n) == SubSeq(m, n + 1, Len(m))

\* Fault: what is buffered does not come before the blocks of the message.
UpdateAroundBuffer(st, m) ==
  LET whole == Len(m) - (Len(m) % BlockLen)
  IN [absorbed |-> st.absorbed \o SubSeq(m, 1, whole), buf |-> st.buf \o From(m, whole)]

\* poly1305_update: fill up the buffer, take the whole blocks from the message
\* itself, buffer the rest.
Update(st, m) ==
  LET want  == IF st.buf = <<>> THEN 0
               ELSE IF Len(m) < BlockLen - Len(st.buf) THEN Len(m) ELSE BlockLen - Len(st.buf)
      top   == st.buf \o SubSeq(m, 1, want)
      full  == Len(top) = BlockLen
      rest  == From(m, want)
      whole == Len(rest) - (Len(rest) % BlockLen)
  IN [absorbed |-> st.absorbed \o (IF full THEN top ELSE <<>>) \o SubSeq(rest, 1, whole),
      buf |-> IF whole < Len(rest) THEN From(rest, whole) ELSE IF full THEN <<>> ELSE top]

\* A byte that is zero: of the padding, and of memory wiped with memset.
ZeroByte == {}

Zeros(n) == [i \in 1 .. n |-> ZeroByte]

Pad16(st, n) ==
  IF n % BlockLen = 0 THEN st ELSE Update(st, Zeros(BlockLen - (n % BlockLen)))

\* The lens block: 8 bytes of each length.
Lens(ad_len, ct_len) ==
  [i \in 1 .. BlockLen |-> IF i <= BlockLen \div 2
                           THEN {<<"ad_len", ad_len, i>>}
                           ELSE {<<"ct_len", ct_len, i - BlockLen \div 2>>}]

\* The calls of tag_portable between poly1305_init and poly1305_finish.
TagInput(ad, ct) ==
  LET ads == Pad16(Update(Fresh, ad), Len(ad))
      cts == Pad16(Update(ads, ct), Len(ct))
  IN Update(cts, Lens(Len(ad), Len(ct)))

-----------------------------------------------------------------------------
\* RFC 8439, section 2.8: what is authenticated.
PadTo(m) == m \o Zeros((BlockLen - (Len(m) % BlockLen)) % BlockLen)

Layout(ad, ct) == PadTo(ad) \o PadTo(ct) \o Lens(Len(ad), Len(ct))
=============================================================================
