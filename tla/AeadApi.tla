------------------------------- MODULE AeadApi -------------------------------
(***************************************************************************)
(* chacha20_poly1305_seal and _open and their scatter and gather forms     *)
(* (src/chacha20poly1305.c): one record sealed, carried to the other end,  *)
(* perhaps damaged on the way, and opened there.  Either end runs the      *)
(* portable path or the AVX-512 kernels, in place or not.                  *)
(*                                                                         *)
(* A byte is the set of what has been XORed into it, so that encrypting    *)
(* twice with the same keystream gives the plaintext back and a byte wiped *)
(* with memset is {}.  The keystream and the tag are ideal: two of them    *)
(* are equal only if everything they were made from is.                    *)
(*                                                                         *)
(* The AVX-512 kernels are what AeadRecord says of them, which runs of     *)
(* Seal512 and Open512 show they implement: they may encrypt and           *)
(* authenticate in any chunks and any order it allows.                     *)
(***************************************************************************)
EXTENDS PortableMac, FiniteSets

CONSTANTS
  TagLen,      \* CHACHA20_POLY1305_TAG_LEN
  SizeSpace,   \* 2^64: sizes are size_t
  Lengths,     \* in_len of the records sealed
  AdLengths,   \* ad_len
  Rooms        \* max_out_len and max_out_tag_len

ASSUME SizeAssumption ==
  /\ TagLen \in Nat \ {0} /\ SizeSpace \in Nat /\ TagLen < SizeSpace
  /\ Lengths \cup AdLengths \cup Rooms \subseteq 0 .. SizeSpace - 1

VARIABLES
  pc,        \* what the caller, or the call in progress, does next
  call,      \* "seal" or "open"
  len,       \* bytes to encrypt or decrypt
  room,      \* bytes the caller gives the call to write at out
  inplace,   \* out = in
  fast,      \* g_avx512 when the call tests it
  nonce, ad, \* of this call
  mem,       \* the caller's two buffers
  before,    \* the buffer at out when the call was made
  crypted,   \* AVX-512: bytes encrypted or decrypted so far
  hashed,    \* AVX-512: ciphertext authenticated so far
  tag,       \* the tag computed
  result, out_len,
  sealed,    \* what seal returned: the length of the plaintext, ad, the record
  intact     \* the record reached the other end as it was sealed

args == <<call, len, room, inplace, fast, nonce, ad>>
vars == <<pc, args, mem, before, crypted, hashed, tag, result, out_len, sealed, intact>>

-----------------------------------------------------------------------------
Offset == 0 .. SizeSpace - 1

Xor(a, b) == (a \ b) \cup (b \ a)

\* A buffer the call has no business with: whatever was there.
Stale(b) == [i \in Offset |-> {<<"stale", b, i>>}]

dst == IF inplace THEN "in" ELSE "out"

\* n bytes of a buffer.
Bytes(b, from, n) == [i \in 1 .. n |-> b[from + i - 1]]

\* A buffer with m at an offset.
Put(b, from, m) ==
  [i \in Offset |-> IF i \in from .. from + Len(m) - 1 THEN m[i - from + 1] ELSE b[i]]

\* CRYPTO_chacha_20 from counter 1, on the bytes from .. to - 1.
Crypted(from, to) ==
  [mem EXCEPT ![dst] =
     [i \in Offset |-> IF i \in from .. to - 1
                       THEN Xor(mem["in"][i], {<<"keystream", nonce, i>>}) ELSE @[i]]]

\* The tag of what Poly1305 took in, under the key made of the nonce.
TagOf(input) == [i \in 1 .. TagLen |-> {<<"tag", nonce, input, i>>}]

\* tag_portable
TagPortable(ct) == TagOf(TagInput(ad, ct).absorbed)

\* Padded and closed with the lengths, as the kernels do.
TagFused(ct) == TagOf(Layout(ad, ct))

Kernels == INSTANCE AeadRecord WITH
  mode <- IF call = "seal" THEN "seal" ELSE IF inplace THEN "open_inplace" ELSE "open",
  authed <- Len(hashed),
  finished <- pc # "fused"

-----------------------------------------------------------------------------
(***************************************************************************)
(* Seal.                                                                   *)
(***************************************************************************)
AdBytes(n) == [i \in 1 .. n |-> {<<"ad", i>>}]

Init ==
  /\ pc = "start" /\ call = "seal" /\ result = -1 /\ out_len = -1
  /\ len = 0 /\ room = 0 /\ nonce = 1
  /\ inplace \in BOOLEAN /\ fast \in BOOLEAN
  /\ ad \in {AdBytes(n) : n \in AdLengths}
  /\ mem = [in |-> [i \in Offset |-> {<<"plain", i>>}], out |-> Stale("out")]
  /\ before = mem[dst]
  /\ crypted = 0 /\ hashed = <<>> /\ tag = <<>>
  /\ sealed = [len |-> 0, ad |-> <<>>, record |-> <<>>] /\ intact = TRUE

Setting == <<call, inplace, fast, nonce, ad>>

\* The call gives up before it has written anything.
Reject ==
  /\ pc' = "returned" /\ result' = 0
  /\ UNCHANGED <<len, room, Setting, mem, before, crypted, hashed, tag, out_len, sealed, intact>>

\* The body of seal_scatter and open_gather.
Begin(n, space, portable) ==
  /\ len' = n /\ room' = space
  /\ pc' = IF fast THEN "fused" ELSE portable
  /\ UNCHANGED <<Setting, mem, before, crypted, hashed, tag, result, out_len, sealed, intact>>

\* chacha20_poly1305_seal_scatter.  space is what the caller's buffers hold.
SealScatter(n, max_out_tag_len, extra_in_len, space) ==
  IF extra_in_len # 0 \/ max_out_tag_len < TagLen
  THEN Reject
  ELSE Begin(n, space, "seal_crypt")

\* Fault: only the size of the buffer is tested.
SealWithoutWrapTest(n, max_out_len) ==
  IF max_out_len < (n + TagLen) % SizeSpace
  THEN Reject
  ELSE SealScatter(n, (max_out_len - n) % SizeSpace, 0, max_out_len)

\* chacha20_poly1305_seal
Seal(n, max_out_len) ==
  LET need == (n + TagLen) % SizeSpace
  IN IF need < n \/ max_out_len < need
     THEN Reject
     ELSE SealScatter(n, (max_out_len - n) % SizeSpace, 0, max_out_len)

SealCall ==
  /\ pc = "start" /\ call = "seal"
  /\ \E n \in Lengths, max \in Rooms :
       \/ Seal(n, max)
       \/ /\ n + max < SizeSpace
          /\ \E extra \in {0, 1} : SealScatter(n, max, extra, n + max)

SealCrypt ==
  /\ pc = "seal_crypt" /\ pc' = "seal_tag"
  /\ mem' = Crypted(0, len)
  /\ UNCHANGED <<args, before, crypted, hashed, tag, result, out_len, sealed, intact>>

\* The tag is written behind the ciphertext and the call returns.
SealReturn(t) ==
  /\ mem' = [mem EXCEPT ![dst] = Put(@, len, t)]
  /\ out_len' = len + TagLen
  /\ result' = 1 /\ pc' = "returned"
  /\ sealed' = [len |-> len, ad |-> ad, record |-> Bytes(mem'[dst], 0, len + TagLen)]

SealTag ==
  /\ pc = "seal_tag"
  /\ SealReturn(TagPortable(Bytes(mem[dst], 0, len)))
  /\ UNCHANGED <<args, before, crypted, hashed, tag, intact>>

-----------------------------------------------------------------------------
(***************************************************************************)
(* Open.                                                                   *)
(***************************************************************************)

\* What open can be given for the record: all of it, a part of it, a record with
\* one byte changed, or the wrong nonce or associated data.
Deliveries ==
  LET all == [len |-> Len(sealed.record), changed |-> 0, nonce |-> 1, ad |-> sealed.ad]
  IN {all}
       \cup {[all EXCEPT !.len = n] : n \in 0 .. all.len - 1}
       \cup {[all EXCEPT !.changed = i] : i \in 1 .. all.len}
       \cup {[all EXCEPT !.nonce = 2], [all EXCEPT !.ad = @ \o AdBytes(1)]}

\* The record is put in a buffer of the other end.
Deliver ==
  /\ pc = "returned" /\ call = "seal" /\ result = 1
  /\ pc' = "start" /\ call' = "open"
  /\ \E d \in Deliveries :
       LET record == [i \in 1 .. d.len |-> IF i = d.changed
                                         THEN Xor(sealed.record[i], {<<"flip", i>>})
                                         ELSE sealed.record[i]]
       IN /\ nonce' = d.nonce /\ ad' = d.ad /\ len' = d.len
          /\ mem' = [in |-> Put(Stale("in"), 0, record), out |-> Stale("out")]
          /\ intact' = (record = sealed.record /\ d.nonce = 1 /\ d.ad = sealed.ad)
  /\ inplace' \in BOOLEAN /\ fast' \in BOOLEAN
  /\ before' = mem'[IF inplace' THEN "in" ELSE "out"]
  /\ room' = 0 /\ crypted' = 0 /\ hashed' = <<>> /\ tag' = <<>>
  /\ result' = -1 /\ out_len' = -1
  /\ UNCHANGED sealed

\* chacha20_poly1305_open_gather, the tag behind the ciphertext.
OpenGather(n, in_tag_len, space) ==
  IF in_tag_len # TagLen THEN Reject ELSE Begin(n, space, "open_tag")

\* chacha20_poly1305_open
Open(in_len, max_out_len) ==
  IF in_len < TagLen \/ max_out_len < in_len - TagLen
  THEN Reject
  ELSE OpenGather(in_len - TagLen, TagLen, max_out_len)

OpenCall ==
  /\ pc = "start" /\ call = "open"
  /\ \/ \E max \in Rooms : Open(len, max)
     \/ \E n \in 0 .. len : OpenGather(n, len - n, n)

OpenTag ==
  /\ pc = "open_tag" /\ pc' = "open_crypt"
  /\ tag' = TagPortable(Bytes(mem["in"], 0, len))
  /\ UNCHANGED <<args, mem, before, crypted, hashed, result, out_len, sealed, intact>>

OpenCrypt ==
  /\ pc = "open_crypt" /\ pc' = "verify"
  /\ mem' = Crypted(0, len)
  /\ UNCHANGED <<args, before, crypted, hashed, tag, result, out_len, sealed, intact>>

\* Fault: the last byte is not compared.
AllButLastEqual(a, b) == \A i \in 1 .. TagLen - 1 : a[i] = b[i]

\* ct_eq16: no difference in any byte.
CtEq(a, b) == UNION {Xor(a[i], b[i]) : i \in 1 .. TagLen} = {}

\* Fault: a forged record is left decrypted.
VerifyWithoutWipe ==
  /\ pc = "verify" /\ pc' = "returned"
  /\ IF CtEq(tag, Bytes(mem["in"], len, TagLen))
     THEN result' = 1 /\ out_len' = len
     ELSE result' = 0 /\ UNCHANGED out_len
  /\ UNCHANGED <<args, mem, before, crypted, hashed, tag, sealed, intact>>

\* The end of open_gather.
Verify ==
  /\ pc = "verify" /\ pc' = "returned"
  /\ IF CtEq(tag, Bytes(mem["in"], len, TagLen))
     THEN result' = 1 /\ out_len' = len /\ UNCHANGED mem
     ELSE /\ result' = 0 /\ UNCHANGED out_len
          /\ mem' = [mem EXCEPT ![dst] = Put(@, 0, Zeros(len))]
  /\ UNCHANGED <<args, before, crypted, hashed, tag, sealed, intact>>

-----------------------------------------------------------------------------
(***************************************************************************)
(* The AVX-512 kernels.  Seal authenticates what it has written, open what *)
(* it was given.                                                           *)
(***************************************************************************)
Ciphertext == IF call = "seal" THEN mem[dst] ELSE mem["in"]

HashedTo(to) == hashed \o Bytes(Ciphertext, Len(hashed), to - Len(hashed))

FusedAuthenticate ==
  /\ pc = "fused"
  /\ \E to \in Len(hashed) + 1 .. len :
       /\ Kernels!MayAuthenticate(to, crypted)
       /\ hashed' = HashedTo(to)
  /\ UNCHANGED <<pc, args, mem, before, crypted, tag, result, out_len, sealed, intact>>

FusedCrypt ==
  /\ pc = "fused"
  /\ \E to \in crypted + 1 .. len :
       /\ Kernels!MayWrite(to, Len(hashed))
       /\ mem' = Crypted(crypted, to)
       /\ crypted' = to
  /\ UNCHANGED <<pc, args, before, hashed, tag, result, out_len, sealed, intact>>

\* What is left is authenticated, and the tag copied out of the aead_data.
FusedFinish ==
  /\ pc = "fused" /\ crypted = len
  /\ Len(hashed) < len => Kernels!MayAuthenticate(len, crypted)
  /\ hashed' = HashedTo(len)
  /\ IF call = "seal"
     THEN SealReturn(TagFused(hashed')) /\ UNCHANGED tag
     ELSE /\ tag' = TagFused(hashed') /\ pc' = "verify"
          /\ UNCHANGED <<mem, result, out_len, sealed>>
  /\ UNCHANGED <<args, before, crypted, intact>>

Next ==
  \/ SealCall \/ SealCrypt \/ SealTag
  \/ Deliver
  \/ OpenCall \/ OpenTag \/ OpenCrypt \/ Verify
  \/ FusedAuthenticate \/ FusedCrypt \/ FusedFinish

Spec == Init /\ [][Next]_vars

-----------------------------------------------------------------------------
(***************************************************************************)
(* Properties.                                                             *)
(***************************************************************************)
\* No call writes past what the caller gave it at out and out_tag, in_len + 16
\* wrapping or not.
WritesStayInRoom == \A i \in Offset : mem[dst][i] # before[i] => i < room

\* A call that returns 0 leaves no decrypted byte: every byte at out is what it
\* was or zero, and out_len is not written.
NothingReleased ==
  pc = "returned" /\ result = 0 =>
    /\ out_len = -1
    /\ \A i \in Offset : mem[dst][i] \in {before[i], ZeroByte}

\* The tag covers the associated data and the ciphertext as RFC 8439 lays them
\* out, whichever path computed it and although an in-place open overwrites the
\* ciphertext: portable and AVX-512 ends agree.
TagCoversRecord ==
  /\ pc = "returned" /\ call = "seal" /\ result = 1 =>
       Bytes(mem[dst], len, TagLen) = TagOf(Layout(ad, Bytes(mem[dst], 0, len)))
  /\ pc = "verify" =>
       tag = TagOf(Layout(ad, Bytes(IF inplace THEN before ELSE mem["in"], 0, len)))

\* An open that gets as far as comparing tags returns the plaintext of a record as
\* it was sealed, and refuses, and wipes, any other.
OpensWhatWasSealed ==
  [][pc = "verify" =>
       IF intact
       THEN /\ result' = 1 /\ out_len' = sealed.len
            /\ \A i \in 0 .. sealed.len - 1 : mem'[dst][i] = {<<"plain", i>>}
       ELSE /\ result' = 0
            /\ \A i \in 0 .. len - 1 : mem'[dst][i] = ZeroByte]_vars
=============================================================================
