---------------------------- MODULE AeadApiProofs ----------------------------
(***************************************************************************)
(* The C interface, for records, buffers and associated data of any length,*)
(* sizes of any width and a tag of any length: no call writes outside the  *)
(* caller's buffers, a call that fails releases nothing, the tag is of the *)
(* same bytes by either path, and what is opened is what was sealed.       *)
(***************************************************************************)
EXTENDS AeadApi, SequenceTheorems, TLAPS

-----------------------------------------------------------------------------
(***************************************************************************)
(* The inductive invariant.                                                *)
(***************************************************************************)
Buffer == {"in", "out"}
Sealing == {"seal_crypt", "seal_tag"}
Opening == {"open_tag", "open_crypt", "verify"}

\* What every step needs of the shape of the state.
Shape ==
  /\ pc \in {"start", "fused", "returned"} \cup Sealing \cup Opening
  /\ call \in {"seal", "open"}
  /\ pc \in Sealing => call = "seal"
  /\ pc \in Opening => call = "open"
  /\ inplace \in BOOLEAN
  /\ DOMAIN mem = Buffer
  /\ len \in Nat /\ room \in Int /\ crypted \in Nat
  /\ Len(sealed.record) \in Nat

\* The buffer at out is as it was from offset n on.
UntouchedFrom(n) == \A i \in Offset : mem[dst][i] # before[i] => i < n

\* The lengths tested on entry leave room for what is written later, and until the
\* call returns only the record itself has been.
Room ==
  /\ pc = "start" => UntouchedFrom(0)
  /\ pc \in {"fused"} \cup Sealing \cup Opening =>
       /\ UntouchedFrom(len)
       /\ len + (IF call = "seal" THEN TagLen ELSE 0) <= room
  /\ pc = "returned" => WritesStayInRoom

\* out_len is written last.
Withheld == (pc # "returned" => out_len = -1) /\ NothingReleased

IInv == Shape /\ Room /\ Withheld

-----------------------------------------------------------------------------
(***************************************************************************)
(* Bytes written.                                                          *)
(***************************************************************************)
LEMMA Sizes == TagLen \in Nat /\ TagLen > 0 /\ SizeSpace \in Nat /\ TagLen < SizeSpace
  BY SizeAssumption

LEMMA DstIsBuffer == dst \in Buffer
  BY DEF dst, Buffer

\* How long what is written is.
LEMMA ZerosLength == ASSUME NEW n \in Nat PROVE Len(Zeros(n)) = n
  BY DEF Zeros

LEMMA TagLength == ASSUME NEW input PROVE Len(TagOf(input)) = TagLen
  BY Sizes DEF TagOf

LEMMA BytesLength ==
  ASSUME NEW b, NEW from, NEW n \in Nat PROVE Len(Bytes(b, from, n)) = n
  BY DEF Bytes

\* The cipher writes up to where it is told.
LEMMA CryptedWrites ==
  ASSUME Shape, NEW from \in Nat, NEW to \in Nat
  PROVE  /\ DOMAIN Crypted(from, to) = Buffer
         /\ \A i \in Offset : i >= to => Crypted(from, to)[dst][i] = mem[dst][i]
<1>1. \A i \in Offset : i \in Int
  BY Sizes DEF Offset
<1> QED BY <1>1, DstIsBuffer DEF Crypted, Shape, Buffer

-----------------------------------------------------------------------------
(***************************************************************************)
(* Initial states.                                                         *)
(***************************************************************************)
LEMMA InitIInv == Init => IInv
<1> SUFFICES ASSUME Init PROVE IInv
  OBVIOUS
<1>1. Shape
  <2>1. Len(sealed.record) \in Nat
    <3>1. sealed.record = <<>>
      BY DEF Init
    <3> QED BY <3>1
  <2>2. DOMAIN mem = Buffer
    BY DEF Init, Buffer
  <2> QED BY <2>1, <2>2 DEF Init, Shape, Sealing, Opening
<1>2. Room
  BY DEF Init, Room, UntouchedFrom, Sealing, Opening
<1>3. Withheld
  BY DEF Init, Withheld, NothingReleased
<1> QED BY <1>1, <1>2, <1>3 DEF IInv

-----------------------------------------------------------------------------
(***************************************************************************)
(* A call begins, or is refused.                                           *)
(***************************************************************************)
LEMMA RejectKeeps ==
  ASSUME IInv, pc = "start", Reject
  PROVE  IInv'
<1>1. dst' = dst /\ mem' = mem /\ before' = before
  BY DEF Reject, Setting, dst
<1>2. \A i \in Offset : i \in Nat
  BY Sizes DEF Offset
<1>3. \A i \in Offset : mem[dst][i] = before[i]
  BY <1>2 DEF IInv, Room, UntouchedFrom
<1>4. Shape'
  BY DEF IInv, Shape, Reject, Setting, Sealing, Opening
<1>5. WritesStayInRoom' /\ (\A i \in Offset : mem'[dst'][i] \in {before'[i], ZeroByte})
  BY <1>1, <1>3 DEF WritesStayInRoom
<1>6. Room'
  BY <1>5 DEF Room, Reject, Sealing, Opening
<1>7. Withheld'
  BY <1>5 DEF IInv, Withheld, NothingReleased, Reject
<1> QED BY <1>4, <1>6, <1>7 DEF IInv

LEMMA BeginKeeps ==
  ASSUME IInv, pc = "start",
         NEW n \in Nat, NEW space \in Int, NEW portable,
         n + (IF call = "seal" THEN TagLen ELSE 0) <= space,
         portable \in (IF call = "seal" THEN Sealing ELSE Opening),
         Begin(n, space, portable)
  PROVE  IInv'
<1>1. dst' = dst /\ mem' = mem /\ before' = before /\ call' = call
  BY DEF Begin, Setting, dst
<1>2. \A i \in Offset : i \in Nat
  BY Sizes DEF Offset
<1>3. \A i \in Offset : mem[dst][i] = before[i]
  BY <1>2 DEF IInv, Room, UntouchedFrom
<1>4. Shape'
  BY DEF IInv, Shape, Begin, Setting, Sealing, Opening
<1>5. pc' \in {"fused"} \cup Sealing \cup Opening
  BY DEF Begin
<1>6. pc' # "start" /\ pc' # "returned"
  BY <1>5 DEF Sealing, Opening
<1>7. Room'
  <2>1. UntouchedFrom(len)'
    BY <1>1, <1>3 DEF UntouchedFrom
  <2>2. len' + (IF call' = "seal" THEN TagLen ELSE 0) <= room'
    BY <1>1 DEF Begin
  <2> QED BY <2>1, <2>2, <1>6 DEF Room
<1>8. Withheld'
  BY <1>6 DEF IInv, Withheld, NothingReleased, Begin
<1> QED BY <1>4, <1>7, <1>8 DEF IInv

\* A sum that wraps is smaller than what was added to.
LEMMA WrapShows ==
  ASSUME NEW s \in Nat, NEW t \in Nat, t < s, NEW n \in 0 .. s - 1, (n + t) % s >= n
  PROVE  (n + t) % s = n + t
<1>1. CASE n + t < s
  BY <1>1, Z3
<1>2. CASE n + t >= s
  <2>1. (n + t) % s = (n + t) - s
    BY <1>2, Z3
  <2> QED BY <2>1
<1> QED BY <1>1, <1>2

LEMMA SealScatterKeeps ==
  ASSUME IInv, pc = "start", call = "seal",
         NEW n \in Nat, NEW max, NEW extra, NEW space \in Int,
         max >= TagLen => n + TagLen <= space,
         SealScatter(n, max, extra, space), max \in Int
  PROVE  IInv'
<1>1. CASE extra # 0 \/ max < TagLen
  BY <1>1, RejectKeeps DEF SealScatter
<1>2. CASE ~(extra # 0 \/ max < TagLen)
  <2>1. Begin(n, space, "seal_crypt")
    BY <1>2 DEF SealScatter
  <2>2. n + (IF call = "seal" THEN TagLen ELSE 0) <= space
    BY <1>2, Sizes
  <2>3. "seal_crypt" \in (IF call = "seal" THEN Sealing ELSE Opening)
    BY DEF Sealing
  <2> QED BY <2>1, <2>2, <2>3, BeginKeeps
<1> QED BY <1>1, <1>2

LEMMA SealCallKeeps == IInv /\ SealCall => IInv'
<1> SUFFICES ASSUME IInv, SealCall PROVE IInv'
  OBVIOUS
<1>1. PICK n \in Lengths, max \in Rooms :
        \/ Seal(n, max)
        \/ n + max < SizeSpace /\ \E extra \in {0, 1} : SealScatter(n, max, extra, n + max)
  BY DEF SealCall
<1>2. n \in 0 .. SizeSpace - 1 /\ max \in 0 .. SizeSpace - 1
  BY SizeAssumption
<1>3. n \in Nat /\ max \in Int /\ n + max \in Int
  BY <1>2, Sizes
<1>4. pc = "start" /\ call = "seal"
  BY DEF SealCall
<1>5. CASE Seal(n, max)
  <2> DEFINE need == (n + TagLen) % SizeSpace
  <2>1. CASE need < n \/ max < need
    BY <2>1, <1>5, <1>4, RejectKeeps DEF Seal
  <2>2. CASE ~(need < n \/ max < need)
    <3>1. need = n + TagLen
      <4>1. need \in Int
        BY <1>3, Sizes, Z3
      <4>2. (n + TagLen) % SizeSpace >= n
        BY <2>2, <4>1, <1>3
      <4> QED BY <4>2, <1>2, Sizes, WrapShows
    <3>2. n + TagLen <= max
      BY <2>2, <3>1, <1>3, Sizes
    <3>3. (max - n) % SizeSpace \in Int
      BY <1>3, Sizes, Z3
    <3>4. SealScatter(n, (max - n) % SizeSpace, 0, max)
      BY <2>2, <1>5 DEF Seal
    <3> QED BY <3>2, <3>3, <3>4, <1>3, <1>4, SealScatterKeeps
  <2> QED BY <2>1, <2>2
<1>6. CASE n + max < SizeSpace /\ \E extra \in {0, 1} : SealScatter(n, max, extra, n + max)
  <2>1. PICK extra \in {0, 1} : SealScatter(n, max, extra, n + max)
    BY <1>6
  <2>2. max >= TagLen => n + TagLen <= n + max
    BY <1>3, Sizes
  <2> QED BY <2>1, <2>2, <1>3, <1>4, SealScatterKeeps
<1> QED BY <1>1, <1>5, <1>6

LEMMA OpenCallKeeps == IInv /\ OpenCall => IInv'
<1> SUFFICES ASSUME IInv, OpenCall PROVE IInv'
  OBVIOUS
<1>1. pc = "start" /\ call = "open" /\ call # "seal" /\ len \in Nat
  BY DEF OpenCall, IInv, Shape
<1>2. "open_tag" \in (IF call = "seal" THEN Sealing ELSE Opening)
  BY <1>1 DEF Opening
<1>3. ASSUME NEW n \in Nat, NEW l, NEW space \in Int, n <= space, OpenGather(n, l, space)
      PROVE  IInv'
  <2>1. CASE l # TagLen
    BY <2>1, <1>1, <1>3, RejectKeeps DEF OpenGather
  <2>2. CASE l = TagLen
    <3>1. Begin(n, space, "open_tag")
      BY <2>2, <1>3 DEF OpenGather
    <3>2. n + (IF call = "seal" THEN TagLen ELSE 0) <= space
      BY <1>1, <1>3
    <3> QED BY <3>1, <3>2, <1>1, <1>2, BeginKeeps
  <2> QED BY <2>1, <2>2
<1>4. ASSUME NEW max \in Rooms, Open(len, max)
      PROVE  IInv'
  <2>1. max \in Int
    BY SizeAssumption, Sizes
  <2>2. CASE len < TagLen \/ max < len - TagLen
    BY <2>2, <1>1, <1>4, RejectKeeps DEF Open
  <2>3. CASE ~(len < TagLen \/ max < len - TagLen)
    <3>1. len - TagLen \in Nat /\ len - TagLen <= max
      BY <2>1, <2>3, <1>1, Sizes
    <3>2. OpenGather(len - TagLen, TagLen, max)
      BY <2>3, <1>4 DEF Open
    <3> HIDE DEF OpenGather
    <3> QED BY <3>1, <3>2, <2>1, <1>3
  <2> QED BY <2>2, <2>3
<1>5. ASSUME NEW n \in 0 .. len, OpenGather(n, len - n, n)
      PROVE  IInv'
  <2>1. n \in Nat /\ n \in Int /\ n <= n
    BY <1>1
  <2> QED BY <2>1, <1>3, <1>5
<1> QED BY <1>4, <1>5 DEF OpenCall

-----------------------------------------------------------------------------
(***************************************************************************)
(* Between the call and its return.                                        *)
(***************************************************************************)

\* A step inside a call that leaves the arguments alone and writes only the record.
LEMMA InsideKeeps ==
  ASSUME IInv, pc \in {"fused"} \cup Sealing \cup Opening,
         pc' \in {"fused"} \cup Sealing \cup Opening,
         pc' \in Sealing => call = "seal", pc' \in Opening => call = "open",
         UNCHANGED <<args, before, result, out_len, sealed>>,
         crypted' \in Nat, DOMAIN mem' = Buffer,
         \A i \in Offset : i >= len => mem'[dst][i] = mem[dst][i]
  PROVE  IInv'
<1>1. dst' = dst /\ len' = len /\ room' = room /\ call' = call /\ before' = before
  BY DEF args, dst
<1>2. \A i \in Offset : i \in Int
  BY Sizes DEF Offset
<1>3. pc' # "start" /\ pc' # "returned" /\ pc # "returned"
  BY DEF Sealing, Opening
<1>4. Shape'
  BY DEF IInv, Shape, args
<1>5. UntouchedFrom(len)'
  <2>1. UntouchedFrom(len) /\ len \in Nat
    BY DEF IInv, Room, Shape
  <2> QED BY <2>1, <1>1, <1>2 DEF UntouchedFrom
<1>6. Room'
  <2>1. len + (IF call = "seal" THEN TagLen ELSE 0) <= room
    BY DEF IInv, Room
  <2> QED BY <2>1, <1>1, <1>3, <1>5 DEF Room
<1>7. Withheld'
  BY <1>3 DEF IInv, Withheld, NothingReleased
<1> QED BY <1>4, <1>6, <1>7 DEF IInv

LEMMA SealCryptKeeps == IInv /\ SealCrypt => IInv'
<1> SUFFICES ASSUME IInv, SealCrypt PROVE IInv'
  OBVIOUS
<1>1. Shape /\ len \in Nat /\ 0 \in Nat
  BY DEF IInv, Shape
<1>2. DOMAIN mem' = Buffer /\ \A i \in Offset : i >= len => mem'[dst][i] = mem[dst][i]
  BY <1>1, CryptedWrites DEF SealCrypt
<1>3. pc \in Sealing /\ pc' \in Sealing /\ pc' \notin Opening /\ call = "seal" /\ crypted' \in Nat
  BY <1>1 DEF SealCrypt, Sealing, Opening, Shape
<1> QED BY <1>2, <1>3, InsideKeeps DEF SealCrypt

LEMMA OpenCryptKeeps == IInv /\ OpenCrypt => IInv'
<1> SUFFICES ASSUME IInv, OpenCrypt PROVE IInv'
  OBVIOUS
<1>1. Shape /\ len \in Nat /\ 0 \in Nat
  BY DEF IInv, Shape
<1>2. DOMAIN mem' = Buffer /\ \A i \in Offset : i >= len => mem'[dst][i] = mem[dst][i]
  BY <1>1, CryptedWrites DEF OpenCrypt
<1>3. pc \in Opening /\ pc' \in Opening /\ pc' \notin Sealing /\ call = "open" /\ crypted' \in Nat
  BY <1>1 DEF OpenCrypt, Sealing, Opening, Shape
<1> QED BY <1>2, <1>3, InsideKeeps DEF OpenCrypt

LEMMA OpenTagKeeps == IInv /\ OpenTag => IInv'
<1> SUFFICES ASSUME IInv, OpenTag PROVE IInv'
  OBVIOUS
<1>1. mem' = mem /\ DOMAIN mem = Buffer
  BY DEF OpenTag, IInv, Shape
<1>2. pc \in Opening /\ pc' \in Opening /\ pc' \notin Sealing /\ call = "open" /\ crypted' \in Nat
  BY DEF OpenTag, Sealing, Opening, Shape, IInv
<1> QED BY <1>1, <1>2, InsideKeeps DEF OpenTag

LEMMA FusedAuthenticateKeeps == IInv /\ FusedAuthenticate => IInv'
<1> SUFFICES ASSUME IInv, FusedAuthenticate PROVE IInv'
  OBVIOUS
<1>1. mem' = mem /\ DOMAIN mem = Buffer
  BY DEF FusedAuthenticate, IInv, Shape
<1>2. pc = "fused" /\ pc' = "fused" /\ pc' \notin Sealing \cup Opening /\ crypted' \in Nat
  BY DEF FusedAuthenticate, Sealing, Opening, Shape, IInv
<1> QED BY <1>1, <1>2, InsideKeeps DEF FusedAuthenticate

LEMMA FusedCryptKeeps == IInv /\ FusedCrypt => IInv'
<1> SUFFICES ASSUME IInv, FusedCrypt PROVE IInv'
  OBVIOUS
<1>1. Shape /\ len \in Nat /\ crypted \in Nat
  BY DEF IInv, Shape
<1>2. PICK to \in crypted + 1 .. len : mem' = Crypted(crypted, to) /\ crypted' = to
  BY DEF FusedCrypt
<1>3. to \in Nat /\ to <= len /\ crypted' \in Nat
  BY <1>1, <1>2
<1>4. DOMAIN mem' = Buffer /\ \A i \in Offset : i >= to => mem'[dst][i] = mem[dst][i]
  BY <1>1, <1>2, <1>3, CryptedWrites
<1>5. \A i \in Offset : i >= len => mem'[dst][i] = mem[dst][i]
  <2>1. \A i \in Offset : i \in Int
    BY Sizes DEF Offset
  <2> QED BY <2>1, <1>1, <1>3, <1>4
<1>6. pc = "fused" /\ pc' = "fused" /\ pc' \notin Sealing \cup Opening
  BY DEF FusedCrypt, Sealing, Opening
<1> QED BY <1>3, <1>4, <1>5, <1>6, InsideKeeps DEF FusedCrypt

-----------------------------------------------------------------------------
(***************************************************************************)
(* The return.                                                             *)
(***************************************************************************)

\* Seal adds the tag, in the room the lengths leave for it.
LEMMA SealReturnKeeps ==
  ASSUME IInv, call = "seal", pc \in {"fused"} \cup Sealing,
         NEW t, Len(t) = TagLen, SealReturn(t), UNCHANGED <<args, before, crypted>>
  PROVE  IInv'
<1>1. dst' = dst /\ len' = len /\ room' = room /\ call' = call /\ before' = before
  BY DEF args, dst
<1>2. \A i \in Offset : i \in Int
  BY Sizes DEF Offset
<1>3. len \in Nat /\ room \in Int /\ DOMAIN mem = Buffer
  BY DEF IInv, Shape
<1>4. UntouchedFrom(len) /\ len + TagLen <= room
  BY DEF IInv, Room
<1>5. mem'[dst] = Put(mem[dst], len, t) /\ DOMAIN mem' = Buffer
  BY <1>3, DstIsBuffer DEF SealReturn
<1>6. WritesStayInRoom'
  <2> SUFFICES ASSUME NEW i \in Offset, mem'[dst][i] # before[i] PROVE i < room
    BY <1>1 DEF WritesStayInRoom
  <2>1. i \in Int
    BY <1>2
  <2>2. CASE i < len
    BY <2>1, <2>2, <1>3, <1>4, Sizes
  <2>3. CASE i >= len /\ i < len + Len(t)
    BY <2>1, <2>3, <1>3, <1>4, Sizes
  <2>4. CASE i >= len + Len(t)
    <3>1. mem'[dst][i] = mem[dst][i]
      <4>1. Len(t) \in Nat
        BY Sizes
      <4>2. Put(mem[dst], len, t)[i] = mem[dst][i]
        BY <4>1, <2>1, <2>4, <1>3 DEF Put
      <4> QED BY <4>2, <1>5
    <3>2. i < len
      BY <3>1, <1>4 DEF UntouchedFrom
    <3> QED BY <3>2, <2>2
  <2> QED BY <2>1, <2>2, <2>3, <2>4, <1>3, Sizes
<1>7. Shape'
  <2>1. Len(sealed'.record) \in Nat
    <3>1. len + TagLen \in Nat
      BY <1>3, Sizes
    <3>2. sealed'.record = Bytes(mem'[dst], 0, len + TagLen)
      BY DEF SealReturn
    <3> QED BY <3>1, <3>2, BytesLength
  <2> QED BY <2>1, <1>5 DEF IInv, Shape, SealReturn, args, Sealing, Opening
<1>8. Room'
  BY <1>6 DEF Room, SealReturn, Sealing, Opening
<1>9. Withheld'
  BY DEF Withheld, NothingReleased, SealReturn
<1> QED BY <1>7, <1>8, <1>9 DEF IInv

LEMMA SealTagKeeps == IInv /\ SealTag => IInv'
<1> SUFFICES ASSUME IInv, SealTag PROVE IInv'
  OBVIOUS
<1>1. pc \in Sealing /\ call = "seal"
  BY DEF IInv, Shape, SealTag, Sealing
<1>2. Len(TagPortable(Bytes(mem[dst], 0, len))) = TagLen
  BY TagLength DEF TagPortable
<1> QED BY <1>1, <1>2, SealReturnKeeps DEF SealTag

LEMMA FusedFinishKeeps == IInv /\ FusedFinish => IInv'
<1> SUFFICES ASSUME IInv, FusedFinish PROVE IInv'
  OBVIOUS
<1>1. pc = "fused" /\ UNCHANGED <<args, before, crypted>>
  BY DEF FusedFinish
<1>2. CASE call = "seal"
  <2>1. SealReturn(TagFused(hashed'))
    BY <1>2 DEF FusedFinish
  <2>2. Len(TagFused(hashed')) = TagLen
    BY TagLength DEF TagFused
  <2> QED BY <2>1, <2>2, <1>1, <1>2, SealReturnKeeps
<1>3. CASE call # "seal"
  <2>1. call = "open" /\ DOMAIN mem = Buffer /\ crypted \in Nat
    BY <1>3 DEF IInv, Shape
  <2>2. pc' = "verify" /\ UNCHANGED <<mem, result, out_len, sealed>>
    BY <1>3 DEF FusedFinish
  <2>3. pc' \in Opening /\ pc' \notin Sealing
    BY <2>2 DEF Opening, Sealing
  <2> QED BY <2>1, <2>2, <2>3, <1>1, InsideKeeps
<1> QED BY <1>2, <1>3

\* Open returns the plaintext, or wipes it.
LEMMA VerifyKeeps == IInv /\ Verify => IInv'
<1> SUFFICES ASSUME IInv, Verify PROVE IInv'
  OBVIOUS
<1>1. dst' = dst /\ len' = len /\ room' = room /\ call' = call /\ before' = before
  BY DEF Verify, args, dst
<1>2. \A i \in Offset : i \in Int
  BY Sizes DEF Offset
<1>3. len \in Nat /\ room \in Int /\ DOMAIN mem = Buffer /\ call = "open"
  BY DEF IInv, Shape, Verify, Opening
<1>4. UntouchedFrom(len) /\ len <= room
  BY <1>3 DEF IInv, Room, Verify, Opening
<1>5. out_len = -1
  BY DEF IInv, Withheld, Verify
<1>6. CASE CtEq(tag, Bytes(mem["in"], len, TagLen))
  <2>1. result' = 1 /\ mem' = mem /\ pc' = "returned"
    BY <1>6 DEF Verify
  <2>2. Shape'
    BY <2>1 DEF IInv, Shape, Verify, args, Sealing, Opening
  <2>3. WritesStayInRoom'
    BY <2>1, <1>1, <1>2, <1>3, <1>4 DEF WritesStayInRoom, UntouchedFrom
  <2>4. Room'
    BY <2>1, <2>3 DEF Room, Sealing, Opening
  <2>5. Withheld'
    BY <2>1 DEF Withheld, NothingReleased
  <2> QED BY <2>2, <2>4, <2>5 DEF IInv
<1>7. CASE ~CtEq(tag, Bytes(mem["in"], len, TagLen))
  <2>1. pc' = "returned" /\ out_len' = out_len
    BY <1>7 DEF Verify
  <2>2. mem'[dst] = Put(mem[dst], 0, Zeros(len)) /\ DOMAIN mem' = Buffer
    BY <1>3, <1>7, DstIsBuffer DEF Verify
  <2>3. ASSUME NEW i \in Offset
        PROVE  /\ i < len => mem'[dst][i] = ZeroByte
               /\ i >= len => mem'[dst][i] = before[i]
    <3>1. i \in Int /\ i >= 0 /\ Len(Zeros(len)) = len
      BY <1>2, <1>3, Sizes, ZerosLength DEF Offset
    <3>2. CASE i < len
      <4>1. Put(mem[dst], 0, Zeros(len))[i] = Zeros(len)[i - 0 + 1]
        BY <3>1, <3>2, <1>3 DEF Put
      <4>2. i - 0 + 1 \in 1 .. len
        BY <3>1, <3>2, <1>3
      <4> QED BY <4>1, <4>2, <3>2, <2>2, <3>1, <1>3 DEF Zeros
    <3>3. CASE i >= len
      <4>1. mem'[dst][i] = mem[dst][i]
        BY <3>1, <3>3, <2>2, <1>3 DEF Put
      <4>2. mem[dst][i] = before[i]
        BY <3>1, <3>3, <1>3, <1>4 DEF UntouchedFrom
      <4> QED BY <4>1, <4>2, <3>1, <3>3, <1>3
    <3> QED BY <3>1, <3>2, <3>3, <1>3
  <2>4. Shape'
    BY <2>1, <2>2 DEF IInv, Shape, Verify, args, Sealing, Opening
  <2>5. WritesStayInRoom'
    BY <2>3, <1>1, <1>2, <1>3, <1>4 DEF WritesStayInRoom
  <2>6. \A i \in Offset : mem'[dst'][i] \in {before'[i], ZeroByte}
    BY <2>3, <1>1, <1>2, <1>3
  <2>7. Room'
    BY <2>1, <2>5 DEF Room, Sealing, Opening
  <2>8. Withheld'
    BY <2>1, <2>6, <1>5 DEF Withheld, NothingReleased
  <2> QED BY <2>4, <2>7, <2>8 DEF IInv
<1> QED BY <1>6, <1>7

-----------------------------------------------------------------------------
(***************************************************************************)
(* The record is carried to the other end.                                 *)
(***************************************************************************)
LEMMA DeliverKeeps == IInv /\ Deliver => IInv'
<1> SUFFICES ASSUME IInv, Deliver PROVE IInv'
  OBVIOUS
<1>1. PICK d \in Deliveries : len' = d.len
  BY DEF Deliver
<1>2. pc' = "start" /\ call' = "open" /\ inplace' \in BOOLEAN /\ room' = 0 /\ crypted' = 0
  BY DEF Deliver
<1>3. DOMAIN mem' = Buffer
  BY DEF Deliver, Buffer
<1>4. before' = mem'[dst']
  BY DEF Deliver, dst
<1>5. len' \in Nat
  <2> DEFINE all == [len |-> Len(sealed.record), changed |-> 0, nonce |-> 1, ad |-> sealed.ad]
  <2>1. Len(sealed.record) \in Nat /\ all.len = Len(sealed.record)
    BY DEF IInv, Shape
  <2>2. d = all \/ (\E n \in 0 .. all.len - 1 : d = [all EXCEPT !.len = n])
          \/ (\E i \in 1 .. all.len : d = [all EXCEPT !.changed = i])
          \/ d = [all EXCEPT !.nonce = 2] \/ d = [all EXCEPT !.ad = @ \o AdBytes(1)]
    BY <1>1 DEF Deliveries
  <2>3. CASE d = all
    BY <2>1, <2>3, <1>1
  <2>4. ASSUME NEW n \in 0 .. all.len - 1, d = [all EXCEPT !.len = n]
        PROVE  len' \in Nat
    BY <2>1, <2>4, <1>1
  <2>5. ASSUME NEW i \in 1 .. all.len, d = [all EXCEPT !.changed = i]
        PROVE  len' \in Nat
    BY <2>1, <2>5, <1>1
  <2>6. CASE d = [all EXCEPT !.nonce = 2] \/ d = [all EXCEPT !.ad = @ \o AdBytes(1)]
    BY <2>1, <2>6, <1>1
  <2> QED BY <2>2, <2>3, <2>4, <2>5, <2>6
<1>6. Shape'
  <2>1. sealed' = sealed /\ Len(sealed.record) \in Nat
    BY DEF Deliver, IInv, Shape
  <2> QED BY <2>1, <1>2, <1>3, <1>5 DEF Shape, Sealing, Opening
<1>7. Room'
  BY <1>2, <1>4 DEF Room, UntouchedFrom, Sealing, Opening
<1>8. Withheld'
  BY <1>2 DEF Withheld, NothingReleased, Deliver
<1> QED BY <1>6, <1>7, <1>8 DEF IInv

-----------------------------------------------------------------------------
(***************************************************************************)
(* What the portable Poly1305 is given.                                    *)
(***************************************************************************)

\* A multiple of M other than zero is at least M away from zero.
LEMMA MultipleIsFar ==
  ASSUME NEW M \in Nat, M > 0, NEW d \in Int
  PROVE  (d >= 1 => M * d >= M) /\ (d <= -1 => M * d <= -M)
  BY Z3

\* The remainder is the only residue in 0 .. M-1.
LEMMA RemainderIsUnique ==
  ASSUME NEW M \in Nat, M > 0, NEW x \in Int, NEW q \in Int,
         NEW r \in 0 .. M - 1, x = M * q + r
  PROVE  x % M = r
<1>1. /\ x % M \in 0 .. M - 1
      /\ x \div M \in Int
      /\ x = M * (x \div M) + (x % M)
  BY Z3
<1> DEFINE d == (x \div M) - q
<1>2. d \in Int /\ M * d = r - (x % M)
  BY <1>1, Z3
<1>3. d = 0
  BY <1>1, <1>2, MultipleIsFar, Z3
<1> QED BY <1>1, <1>2, <1>3, Z3

\* What is left over after whole blocks is what is left over.
Leaves(M) == \A a, b \in Nat : a % M = 0 => (a + b) % M = b % M

LEMMA BlocksLeave == ASSUME NEW M \in Nat, M > 0 PROVE Leaves(M)
<1> SUFFICES ASSUME NEW a \in Nat, NEW b \in Nat, a % M = 0
             PROVE  (a + b) % M = b % M
  BY DEF Leaves
<1>1. /\ b % M \in 0 .. M - 1 /\ b \div M \in Int /\ b = M * (b \div M) + (b % M)
      /\ a \div M \in Int /\ a = M * (a \div M)
  BY Z3
<1> DEFINE q == (a \div M) + (b \div M)
           c == a + b
<1>2. q \in Int /\ c \in Int
  BY <1>1
<1>3. c = M * q + (b % M)
  BY <1>1, Z3
<1>4. c % M = b % M
  <2> HIDE DEF c, q
  <2> QED BY <1>1, <1>2, <1>3, RemainderIsUnique
<1> QED BY <1>4

\* The whole blocks of a message of n bytes.
LEMMA WholeBlocks ==
  ASSUME NEW M \in Nat, M > 0, NEW n \in Nat
  PROVE  /\ n % M \in 0 .. M - 1 /\ n - (n % M) \in 0 .. n
         /\ (n - (n % M)) % M = 0
<1>1. n % M \in 0 .. M - 1 /\ n \div M \in Nat /\ n = M * (n \div M) + (n % M)
  BY Z3
<1>2. n % M <= n
  BY <1>1, Z3
<1> DEFINE w == n - (n % M)
<1>3. w \in Int /\ w = M * (n \div M) + 0 /\ 0 \in 0 .. M - 1 /\ n \div M \in Int
  BY <1>1
<1>4. w % M = 0
  <2> HIDE DEF w
  <2> QED BY <1>3, RemainderIsUnique
<1> QED BY <1>1, <1>2, <1>4

\* A block is one block.
LEMMA OneBlock == ASSUME NEW M \in Nat, M > 0 PROVE M % M = 0
  BY RemainderIsUnique, Z3

LEMMA Block == BlockLen \in Nat /\ BlockLen > 1
  BY BlockAssumption

\* A message is its first k bytes and the rest.
LEMMA Splits ==
  ASSUME NEW S, NEW m \in Seq(S), NEW k \in 0 .. Len(m)
  PROVE  /\ SubSeq(m, 1, k) \in Seq(S) /\ Len(SubSeq(m, 1, k)) = k
         /\ From(m, k) \in Seq(S) /\ Len(From(m, k)) = Len(m) - k
         /\ SubSeq(m, 1, k) \o From(m, k) = m
<1>1. Len(m) \in Nat /\ \A i \in 1 .. Len(m) : m[i] \in S
  BY ElementOfSeq, LenProperties
<1>2. SubSeq(m, 1, k) \in Seq(S) /\ Len(SubSeq(m, 1, k)) = k
  BY <1>1, SubSeqProperties
<1>3. From(m, k) \in Seq(S) /\ Len(From(m, k)) = Len(m) - k
  BY <1>1, SubSeqProperties DEF From
<1>4. SubSeq(m, 1, k) \o SubSeq(m, k + 1, Len(m)) = SubSeq(m, 1, Len(m))
  <2>1. 1 \in 1 .. Len(m) + 1 /\ k \in 1 - 1 .. Len(m) /\ Len(m) \in k .. Len(m)
    BY <1>1
  <2> QED BY <2>1, ConcatAdjacentSubSeq
<1> QED BY <1>2, <1>3, <1>4, SubSeqFull DEF From

\* An authenticator that has been given whole blocks, less than a block buffered.
Absorbs(S, st) ==
  /\ st.absorbed \in Seq(S) /\ st.buf \in Seq(S)
  /\ Len(st.buf) < BlockLen
  /\ Len(st.absorbed) % BlockLen = 0

\* All it has been given.
Given(st) == st.absorbed \o st.buf

\* Concatenation, for the provers.
Concats(S) ==
  /\ \A s, t \in Seq(S) : s \o t \in Seq(S) /\ Len(s \o t) = Len(s) + Len(t)
  /\ \A s, t, u \in Seq(S) : (s \o t) \o u = s \o (t \o u)
  /\ \A s \in Seq(S) : s \o <<>> = s /\ <<>> \o s = s

LEMMA Concatenation == ASSUME NEW S PROVE Concats(S)
<1>1. \A s, t \in Seq(S) : s \o t \in Seq(S) /\ Len(s \o t) = Len(s) + Len(t)
  BY ConcatProperties
<1>2. \A s, t, u \in Seq(S) : (s \o t) \o u = s \o (t \o u)
  BY ConcatAssociative, SMTT(30)
<1>3. \A s \in Seq(S) : s \o <<>> = s /\ <<>> \o s = s
  BY ConcatEmptySeq
<1> QED BY <1>1, <1>2, <1>3 DEF Concats

\* poly1305_update, wherever in a block it starts and stops, adds the message at the
\* end of what was given, and hands over whole blocks only.
LEMMA UpdateAppends ==
  ASSUME NEW S, NEW st, Absorbs(S, st), NEW m \in Seq(S)
  PROVE  Absorbs(S, Update(st, m)) /\ Given(Update(st, m)) = Given(st) \o m
<1> DEFINE a     == st.absorbed
           b     == st.buf
           want  == IF b = <<>> THEN 0
                    ELSE IF Len(m) < BlockLen - Len(b) THEN Len(m) ELSE BlockLen - Len(b)
           top   == b \o SubSeq(m, 1, want)
           rest  == From(m, want)
           whole == Len(rest) - (Len(rest) % BlockLen)
           first == SubSeq(rest, 1, whole)
           last  == From(rest, whole)
           full  == Len(top) = BlockLen
<1>0. Concats(S)
  BY Concatenation
<1>16. \A x, y, z \in Seq(S) : (x \o y) \o z = x \o (y \o z)
  BY <1>0, Zenon DEF Concats
<1>17. \A x, y \in Seq(S) : x \o y \in Seq(S) /\ Len(x \o y) = Len(x) + Len(y)
  BY <1>0, Zenon DEF Concats
<1>14. Leaves(BlockLen)
  BY Block, BlocksLeave
<1>1. Update(st, m) = [absorbed |-> a \o (IF full THEN top ELSE <<>>) \o first,
                       buf |-> IF whole < Len(rest) THEN last ELSE IF full THEN <<>> ELSE top]
  BY ZenonT(60) DEF Update
<1>2. /\ a \in Seq(S) /\ b \in Seq(S) /\ Len(a) \in Nat /\ Len(b) \in Nat /\ Len(m) \in Nat
      /\ Len(b) < BlockLen /\ Len(a) % BlockLen = 0 /\ <<>> \in Seq(S) /\ Len(<<>>) = 0
  BY LenProperties, EmptySeq DEF Absorbs
<1>3. want \in 0 .. Len(m)
  BY <1>2, Block
<1> HIDE DEF want
<1>4. /\ SubSeq(m, 1, want) \in Seq(S) /\ Len(SubSeq(m, 1, want)) = want
      /\ rest \in Seq(S) /\ Len(rest) = Len(m) - want /\ SubSeq(m, 1, want) \o rest = m
  BY <1>3, Splits
<1>5. top \in Seq(S) /\ Len(top) = Len(b) + want
  BY <1>2, <1>4, ConcatProperties
<1>6. top \o rest = b \o m
  <2>1. (b \o SubSeq(m, 1, want)) \o rest = b \o (SubSeq(m, 1, want) \o rest)
    <3> DEFINE pre == SubSeq(m, 1, want)
    <3>1. b \in Seq(S) /\ pre \in Seq(S) /\ rest \in Seq(S)
      BY <1>2, <1>4
    <3> HIDE DEF rest, b, pre
    <3>2. (b \o pre) \o rest = b \o (pre \o rest)
      BY <3>1, <1>16, ZenonT(60)
    <3> QED BY <3>2 DEF pre
  <2> QED BY <2>1, <1>4
<1>7. /\ Len(rest) \in Nat /\ whole \in 0 .. Len(rest) /\ whole % BlockLen = 0
      /\ Len(rest) - whole < BlockLen
  <2>1. Len(rest) \in Nat
    BY <1>3, <1>4, <1>2
  <2> DEFINE n == Len(rest)
  <2>2. n \in Nat
    BY <2>1
  <2>3. BlockLen \in Nat /\ BlockLen > 0
    BY Block
  <2> HIDE DEF n
  <2>4. n % BlockLen \in 0 .. BlockLen - 1 /\ n - (n % BlockLen) \in 0 .. n /\ (n - (n % BlockLen)) % BlockLen = 0
    BY <2>2, <2>3, WholeBlocks, Zenon
  <2>5. Len(rest) % BlockLen \in 0 .. BlockLen - 1 /\ whole \in 0 .. Len(rest) /\ whole % BlockLen = 0
    BY <2>4 DEF n
  <2> QED BY <2>1, <2>5, Block
<1> HIDE DEF top, rest, whole
<1>8. /\ first \in Seq(S) /\ Len(first) = whole /\ last \in Seq(S) /\ Len(last) = Len(rest) - whole
      /\ first \o last = rest
  BY <1>4, <1>7, Splits, SMTT(30)
<1> HIDE DEF a, b, first, last
<1>13. first \in Seq(S) /\ last \in Seq(S)
  BY <1>8
<1>15. a \in Seq(S) /\ b \in Seq(S) /\ top \in Seq(S)
  BY <1>2, <1>5
<1>9. ~(whole < Len(rest)) => last = <<>>
  BY <1>7, <1>8, EmptySeq
<1>10. CASE full
  <2>1. Update(st, m) = [absorbed |-> (a \o top) \o first, buf |-> last]
    BY <1>1, <1>9, <1>10
  <2>2. Given(Update(st, m)) = ((a \o top) \o first) \o last
    BY <2>1 DEF Given
  <2>3. ((a \o top) \o first) \o last = a \o (top \o (first \o last))
    <3>1. a \o top \in Seq(S) /\ first \o last \in Seq(S)
      <4>1. a \in Seq(S) /\ top \in Seq(S) /\ first \in Seq(S) /\ last \in Seq(S)
        BY <1>15, <1>13
      <4> QED BY <4>1, <1>17, ZenonT(30)
    <3>2. ((a \o top) \o first) \o last = (a \o top) \o (first \o last)
      <4> DEFINE at == a \o top
      <4>1. at \in Seq(S)
        BY <3>1
      <4> HIDE DEF at
      <4>2. (at \o first) \o last = at \o (first \o last)
        BY <4>1, <1>13, <1>16, Zenon
      <4> QED BY <4>2 DEF at
    <3>3. (a \o top) \o (first \o last) = a \o (top \o (first \o last))
      <4> DEFINE fl == first \o last
      <4>1. a \in Seq(S) /\ top \in Seq(S) /\ fl \in Seq(S)
        BY <3>1, <1>15
      <4> HIDE DEF fl
      <4>2. (a \o top) \o fl = a \o (top \o fl)
        BY <4>1, <1>16, ZenonT(60)
      <4> QED BY <4>2 DEF fl
    <3> QED BY <3>2, <3>3
  <2>4. a \o (b \o m) = (a \o b) \o m
    <3>1. a \in Seq(S) /\ b \in Seq(S) /\ m \in Seq(S)
      BY <1>15
    <3> QED BY <3>1, <1>16, ZenonT(30)
  <2>5. Given(Update(st, m)) = Given(st) \o m
    BY <2>2, <2>3, <2>4, <1>6, <1>8 DEF Given, a, b
  <2>6. /\ a \o top \in Seq(S) /\ Len(a \o top) = Len(a) + Len(top)
        /\ (a \o top) \o first \in Seq(S)
        /\ Len((a \o top) \o first) = Len(a \o top) + whole
    <3>1. a \o top \in Seq(S) /\ Len(a \o top) = Len(a) + Len(top)
      <4>1. a \in Seq(S) /\ top \in Seq(S)
        BY <1>15
      <4> QED BY <4>1, <1>17, ZenonT(30)
    <3>2. (a \o top) \o first \in Seq(S) /\ Len((a \o top) \o first) = Len(a \o top) + Len(first)
      <4>1. a \o top \in Seq(S) /\ first \in Seq(S)
        BY <3>1, <1>13
      <4> QED BY <4>1, <1>17, ZenonT(30)
    <3> QED BY <3>1, <3>2, <1>8
  <2>7. Len((a \o top) \o first) % BlockLen = 0
    <3>1. BlockLen \in Nat /\ BlockLen > 0 /\ BlockLen % BlockLen = 0
      BY Block, OneBlock
    <3>2. Len(a \o top) % BlockLen = BlockLen % BlockLen
      <4>1. Len(a \o top) = Len(a) + BlockLen
        BY <2>6, <1>10 DEF full
      <4>2. (Len(a) + BlockLen) % BlockLen = BlockLen % BlockLen
        BY <3>1, <1>2, <1>14, Zenon DEF Leaves
      <4> QED BY <4>1, <4>2
    <3>3. Len(a \o top) \in Nat /\ whole \in Nat
      BY <2>6, <1>2, <1>5, <1>7, <1>10, Block, SMTT(30) DEF full
    <3>4. Len(a \o top) % BlockLen = 0
      BY <3>1, <3>2
    <3>5. Len((a \o top) \o first) % BlockLen = whole % BlockLen
      <4>1. (Len(a \o top) + whole) % BlockLen = whole % BlockLen
        BY <3>1, <3>3, <3>4, <1>14, Zenon DEF Leaves
      <4> QED BY <4>1, <2>6
    <3> QED BY <3>5, <1>7
  <2>8. Len(last) < BlockLen
    BY <1>7, <1>8
  <2> HIDE DEF full
  <2>9. Update(st, m).absorbed = (a \o top) \o first /\ Update(st, m).buf = last
    BY <2>1
  <2>10. Absorbs(S, Update(st, m))
    BY <2>9, <2>6, <2>7, <2>8, <1>8 DEF Absorbs
  <2> QED BY <2>5, <2>10
<1>11. CASE ~full /\ b = <<>>
  <2>1. want = 0
    BY <1>11 DEF want
  <2>2. Len(top) = 0
    BY <2>1, <1>2, <1>5, <1>11
  <2>3. top = <<>> /\ rest = m
    <3>1. top = <<>>
      BY <2>2, <1>5, EmptySeq
    <3>2. b \o m = m /\ <<>> \o rest = rest
      BY <1>11, <1>4, ConcatEmptySeq
    <3> QED BY <3>1, <3>2, <1>6
  <2>4. a \o <<>> = a
    BY <1>2, ConcatEmptySeq
  <2>5. Update(st, m) = [absorbed |-> a \o first, buf |-> last]
    BY <1>1, <1>9, <1>11, <2>3, <2>4
  <2>6. Given(Update(st, m)) = (a \o first) \o last
    BY <2>5 DEF Given
  <2>7. (a \o first) \o last = a \o m
    <3>1. (a \o first) \o last = a \o (first \o last)
      <4>1. a \in Seq(S) /\ first \in Seq(S) /\ last \in Seq(S)
        BY <1>15, <1>13
      <4> QED BY <4>1, <1>16, ZenonT(30)
    <3> QED BY <3>1, <1>8, <2>3
  <2>8. Given(st) = a
    BY <2>4, <1>11 DEF Given, a, b
  <2>9. a \o first \in Seq(S) /\ Len(a \o first) = Len(a) + whole
    <3>1. a \o first \in Seq(S) /\ Len(a \o first) = Len(a) + Len(first)
      <4>1. a \in Seq(S) /\ first \in Seq(S)
        BY <1>15, <1>13
      <4> QED BY <4>1, <1>17, ZenonT(30)
    <3> QED BY <3>1, <1>8
  <2>10. Len(a \o first) % BlockLen = 0
    <3>1. whole \in Nat /\ BlockLen \in Nat /\ BlockLen > 0
      BY <1>7, Block
    <3>2. Len(a \o first) % BlockLen = whole % BlockLen
      <4>1. (Len(a) + whole) % BlockLen = whole % BlockLen
        BY <3>1, <1>2, <1>14, Zenon DEF Leaves
      <4> QED BY <4>1, <2>9
    <3> QED BY <3>2, <1>7
  <2>11. Len(last) < BlockLen
    BY <1>7, <1>8
  <2>12. Given(Update(st, m)) = Given(st) \o m
    BY <2>6, <2>7, <2>8
  <2>13. Update(st, m).absorbed = a \o first /\ Update(st, m).buf = last
    BY <2>5
  <2>14. Absorbs(S, Update(st, m))
    BY <2>13, <2>9, <2>10, <2>11, <1>8 DEF Absorbs
  <2> QED BY <2>12, <2>14
<1>12. CASE ~full /\ b # <<>>
  <2>1. want = Len(m) /\ want < BlockLen - Len(b)
    <3>1. want = IF Len(m) < BlockLen - Len(b) THEN Len(m) ELSE BlockLen - Len(b)
      BY <1>12 DEF want
    <3>2. Len(top) # BlockLen
      BY <1>12
    <3> QED BY <3>1, <3>2, <1>2, <1>5, Block
  <2>2. Len(rest) = 0 /\ whole = 0
    BY <2>1, <1>2, <1>4, <1>7
  <2>3. rest = <<>> /\ first = <<>>
    BY <2>2, <1>4, <1>8, EmptySeq
  <2>4. a \o <<>> = a /\ top \o <<>> = top
    BY <1>2, <1>5, ConcatEmptySeq
  <2>5. Update(st, m) = [absorbed |-> a, buf |-> top]
    BY <1>1, <1>12, <2>2, <2>3, <2>4
  <2>6. a \o top = (a \o b) \o m
    <3>1. top = b \o m
      BY <1>6, <2>3, <2>4
    <3>2. a \o (b \o m) = (a \o b) \o m
      BY <1>15, <1>16, ZenonT(60)
    <3> QED BY <3>1, <3>2
  <2>7. Len(top) < BlockLen
    BY <2>1, <1>2, <1>5, Block
  <2>8. Given(Update(st, m)) = Given(st) \o m
    <3>1. Given(Update(st, m)) = a \o top
      BY <2>5 DEF Given
    <3>2. Given(st) = a \o b
      BY DEF Given, a, b
    <3> QED BY <3>1, <3>2, <2>6
  <2>9. Absorbs(S, Update(st, m))
    <3>1. Update(st, m).absorbed = a /\ Update(st, m).buf = top
      BY <2>5
    <3> QED BY <3>1, <2>7, <1>2, <1>5 DEF Absorbs
  <2> QED BY <2>8, <2>9
<1> QED BY <1>10, <1>11, <1>12

LEMMA ZerosType ==
  ASSUME NEW S, ZeroByte \in S, NEW n \in Nat
  PROVE  Zeros(n) \in Seq(S) /\ Len(Zeros(n)) = n
<1>1. Zeros(n) \in [1 .. n -> S]
  BY DEF Zeros
<1>2. Zeros(n) \in Seq(S)
  BY <1>1, SeqDef
<1> QED BY <1>2, ZerosLength

\* Padded, a message is whole blocks.
LEMMA PadType ==
  ASSUME NEW S, ZeroByte \in S, NEW m \in Seq(S)
  PROVE  PadTo(m) \in Seq(S) /\ Len(PadTo(m)) \in Nat /\ Len(PadTo(m)) % BlockLen = 0
<1> DEFINE n == Len(m)
           r == n % BlockLen
           p == (BlockLen - r) % BlockLen
<1>1. n \in Nat
  BY LenProperties
<1>2. BlockLen \in Nat /\ BlockLen > 0
  BY Block
<1> HIDE DEF n
<1>3. r \in 0 .. BlockLen - 1 /\ n \div BlockLen \in Int /\ n = BlockLen * (n \div BlockLen) + r
  BY <1>1, <1>2, Z3
<1> HIDE DEF r
<1>4. p \in Nat /\ (n + p) % BlockLen = 0
  <2>1. 0 \in 0 .. BlockLen - 1 /\ BlockLen \in Int
    BY <1>2
  <2>2. CASE r = 0
    <3>1. BlockLen - r = BlockLen
      BY <2>2, <1>2
    <3>2. p = 0
      BY <3>1, <1>2, OneBlock
    <3>3. n % BlockLen = 0
      BY <2>2 DEF r
    <3> QED BY <3>2, <3>3, <1>1
  <2>3. CASE r # 0
    <3>1. BlockLen - r \in 0 .. BlockLen - 1 /\ BlockLen - r \in Int
      BY <2>3, <1>2, <1>3
    <3>2. BlockLen - r = BlockLen * 0 + (BlockLen - r) /\ 0 \in Int
      BY <3>1, <1>2
    <3>3. p = BlockLen - r
      <4> DEFINE k == BlockLen - r
      <4>1. k \in 0 .. BlockLen - 1 /\ k \in Int /\ k = BlockLen * 0 + k /\ 0 \in Int
        BY <3>1, <3>2
      <4> HIDE DEF k
      <4>2. k % BlockLen = k
        BY <4>1, <1>2, RemainderIsUnique
      <4> QED BY <4>2 DEF k
    <3> DEFINE x == n + p
               q == (n \div BlockLen) + 1
    <3>4. x \in Int /\ q \in Int /\ x = BlockLen * q + 0
      <4>1. x = n + (BlockLen - r)
        BY <3>3
      <4>2. BlockLen * q = BlockLen * (n \div BlockLen) + BlockLen
        BY <1>2, <1>3, Z3
      <4>3. BlockLen * (n \div BlockLen) \in Int
        BY <1>2, <1>3
      <4> QED BY <4>1, <4>2, <4>3, <1>1, <1>2, <1>3, <3>1
    <3>5. x % BlockLen = 0
      <4> HIDE DEF x, q
      <4> QED BY <3>4, <2>1, <1>2, RemainderIsUnique
    <3> QED BY <3>1, <3>3, <3>5
  <2> QED BY <2>2, <2>3
<1>5. Zeros(p) \in Seq(S) /\ Len(Zeros(p)) = p
  <2> HIDE DEF p
  <2> QED BY <1>4, ZerosType
<1>6. PadTo(m) = m \o Zeros(p)
  BY DEF PadTo, n, r
<1>7. PadTo(m) \in Seq(S) /\ Len(PadTo(m)) = n + p
  BY <1>5, <1>6, ConcatProperties DEF n
<1> QED BY <1>1, <1>4, <1>7

\* A message and pad16 after it.
LEMMA PadAppends ==
  ASSUME NEW S, ZeroByte \in S, NEW st, Absorbs(S, st), NEW m \in Seq(S)
  PROVE  /\ Absorbs(S, Pad16(Update(st, m), Len(m)))
         /\ Given(Pad16(Update(st, m), Len(m))) = Given(st) \o PadTo(m)
<1> DEFINE r == Len(m) % BlockLen
           u == Update(st, m)
<1>1. Absorbs(S, u) /\ Given(u) = Given(st) \o m
  BY UpdateAppends
<1>2. Len(m) \in Nat /\ BlockLen \in Nat /\ BlockLen > 0
  BY LenProperties, Block
<1>3. r \in 0 .. BlockLen - 1
  BY <1>2, Z3
<1>4. Concats(S) /\ Given(st) \in Seq(S)
  BY Concatenation DEF Given, Absorbs, Concats
<1> HIDE DEF u
<1>5. CASE r = 0
  <2>1. Pad16(u, Len(m)) = u
    BY <1>5 DEF Pad16
  <2>2. PadTo(m) = m \o Zeros(0)
    <3>1. BlockLen - r = BlockLen /\ BlockLen % BlockLen = 0
      BY <1>2, <1>5, OneBlock
    <3> QED BY <3>1 DEF PadTo
  <2>3. Zeros(0) = <<>>
    <3>1. 0 \in Nat
      OBVIOUS
    <3>2. Zeros(0) \in Seq(S) /\ Len(Zeros(0)) = 0
      BY <3>1, ZerosType
    <3> QED BY <3>2, EmptySeq
  <2>4. PadTo(m) = m
    BY <2>2, <2>3, ConcatEmptySeq
  <2> QED BY <2>1, <2>4, <1>1 DEF u
<1>6. CASE r # 0
  <2> DEFINE z == Zeros(BlockLen - r)
  <2>1. Pad16(u, Len(m)) = Update(u, z)
    BY <1>6 DEF Pad16
  <2>2. BlockLen - r \in 0 .. BlockLen - 1 /\ BlockLen - r \in Nat
    BY <1>2, <1>3, <1>6
  <2>3. z \in Seq(S)
    BY <2>2, ZerosType
  <2>4. PadTo(m) = m \o z
    <3> DEFINE k == BlockLen - r
    <3>1. k \in 0 .. BlockLen - 1 /\ k \in Int /\ k = BlockLen * 0 + k /\ 0 \in Int
      BY <2>2, <1>2
    <3> HIDE DEF k
    <3>2. k % BlockLen = k
      BY <3>1, <1>2, RemainderIsUnique
    <3>3. PadTo(m) = m \o Zeros(k % BlockLen)
      BY DEF PadTo, k
    <3> QED BY <3>2, <3>3 DEF k
  <2> HIDE DEF z
  <2>5. Absorbs(S, Update(u, z)) /\ Given(Update(u, z)) = Given(u) \o z
    BY <1>1, <2>3, UpdateAppends
  <2>6. (Given(st) \o m) \o z = Given(st) \o (m \o z)
    BY <1>4, <2>3, ZenonT(60) DEF Concats
  <2> QED BY <2>1, <2>4, <2>5, <2>6, <1>1 DEF u
<1> QED BY <1>5, <1>6

\* tag_portable gives poly1305_blocks what RFC 8439 says, block for block, and leaves
\* nothing in the buffer for finish: for associated data and a record of any length.
LEMMA TagInputIsLayout ==
  ASSUME NEW S, ZeroByte \in S, NEW x \in Seq(S), NEW y \in Seq(S),
         Lens(Len(x), Len(y)) \in Seq(S)
  PROVE  TagInput(x, y).absorbed = Layout(x, y)
<1> DEFINE a == Pad16(Update(Fresh, x), Len(x))
           b == Pad16(Update(a, y), Len(y))
           l == Lens(Len(x), Len(y))
           t == Update(b, l)
<1>1. Absorbs(S, Fresh) /\ Given(Fresh) = <<>>
  <2>1. <<>> \in Seq(S) /\ Len(<<>>) = 0 /\ <<>> \o <<>> = <<>>
    BY EmptySeq, ConcatEmptySeq
  <2>2. 0 % BlockLen = 0
    BY Block, Z3
  <2> QED BY <2>1, <2>2, Block DEF Absorbs, Given, Fresh
<1> HIDE DEF Fresh
<1>2. Absorbs(S, a) /\ Given(a) = Given(Fresh) \o PadTo(x)
  BY <1>1, PadAppends
<1> HIDE DEF a
<1>3. Absorbs(S, b) /\ Given(b) = Given(a) \o PadTo(y)
  BY <1>2, PadAppends
<1> HIDE DEF b, l
<1>4. l \in Seq(S)
  BY DEF l
<1>5. Absorbs(S, t) /\ Given(t) = Given(b) \o l
  BY <1>3, <1>4, UpdateAppends
<1>6. TagInput(x, y) = t
  BY DEF TagInput, a, b, l
<1> HIDE DEF t
<1>7. /\ PadTo(x) \in Seq(S) /\ Len(PadTo(x)) \in Nat /\ Len(PadTo(x)) % BlockLen = 0
      /\ PadTo(y) \in Seq(S) /\ Len(PadTo(y)) \in Nat /\ Len(PadTo(y)) % BlockLen = 0
  BY PadType
<1>8. Given(t) = Layout(x, y)
  <2>1. <<>> \o PadTo(x) = PadTo(x)
    BY <1>7, ConcatEmptySeq
  <2> QED BY <2>1, <1>1, <1>2, <1>3, <1>5 DEF Layout, l
<1>9. Len(l) = BlockLen
  <2>1. Lens(Len(x), Len(y)) =
          [i \in 1 .. BlockLen |-> IF i <= BlockLen \div 2
                                   THEN {<<"ad_len", Len(x), i>>}
                                   ELSE {<<"ct_len", Len(y), i - BlockLen \div 2>>}]
    BY DEF Lens
  <2>2. DOMAIN Lens(Len(x), Len(y)) = 1 .. BlockLen
    BY <2>1
  <2> QED BY <2>2, <1>4, LenProperties, Block DEF l
<1>10. Len(Given(t)) % BlockLen = 0
  <2> DEFINE k == Len(PadTo(x))
             n == Len(PadTo(y))
  <2>1. Leaves(BlockLen) /\ BlockLen % BlockLen = 0 /\ BlockLen \in Nat
    BY Block, BlocksLeave, OneBlock
  <2>2. Len(PadTo(x) \o PadTo(y)) = k + n /\ PadTo(x) \o PadTo(y) \in Seq(S)
    BY <1>7, ConcatProperties
  <2>3. Len(Layout(x, y)) = (k + n) + BlockLen
    <3>1. Layout(x, y) = (PadTo(x) \o PadTo(y)) \o l
      BY DEF Layout, l
    <3>2. Len((PadTo(x) \o PadTo(y)) \o l) = Len(PadTo(x) \o PadTo(y)) + Len(l)
      BY <2>2, <1>4, ConcatProperties
    <3> QED BY <3>1, <3>2, <2>2, <1>9
  <2>4. (k + n) % BlockLen = n % BlockLen
    BY <2>1, <1>7, Zenon DEF Leaves
  <2>5. k + n \in Nat /\ (k + n) % BlockLen = 0
    BY <2>4, <1>7
  <2>6. ((k + n) + BlockLen) % BlockLen = BlockLen % BlockLen
    BY <2>1, <2>5, Zenon DEF Leaves
  <2> QED BY <2>1, <2>3, <2>6, <1>8
<1>11. t.buf = <<>>
  <2>1. /\ t.absorbed \in Seq(S) /\ t.buf \in Seq(S)
        /\ Len(t.absorbed) \in Nat /\ Len(t.buf) \in Nat
        /\ Len(t.buf) < BlockLen /\ Len(t.absorbed) % BlockLen = 0
    BY <1>5, LenProperties DEF Absorbs
  <2>2. Len(Given(t)) = Len(t.absorbed) + Len(t.buf)
    BY <2>1, ConcatProperties DEF Given
  <2> DEFINE n == Len(t.buf)
  <2>3. n \in 0 .. BlockLen - 1 /\ n \in Int /\ n = BlockLen * 0 + n /\ 0 \in Int
    <3>1. n \in Nat /\ n < BlockLen /\ BlockLen \in Nat
      BY <2>1, Block
    <3> HIDE DEF n
    <3>2. BlockLen * 0 = 0
      BY <3>1, Z3
    <3> QED BY <3>1, <3>2
  <2>4. BlockLen \in Nat /\ BlockLen > 0 /\ Leaves(BlockLen)
    BY Block, BlocksLeave
  <2>5. (Len(t.absorbed) + n) % BlockLen = n % BlockLen
    BY <2>1, <2>4, Zenon DEF Leaves
  <2>6. n % BlockLen = 0
    BY <2>2, <2>5, <1>10
  <2>7. n % BlockLen = n
    <3> HIDE DEF n
    <3> QED BY <2>3, <2>4, RemainderIsUnique
  <2> QED BY <2>1, <2>6, <2>7, EmptySeq
<1>12. t.absorbed = Given(t)
  <2>1. t.absorbed \o <<>> = t.absorbed
    BY <1>5, ConcatEmptySeq DEF Absorbs
  <2> QED BY <2>1, <1>11 DEF Given
<1> QED BY <1>6, <1>8, <1>12

-----------------------------------------------------------------------------
(***************************************************************************)
(* The tag covers the record.                                              *)
(***************************************************************************)

\* The bytes the tag is to cover: what seal has written, or what open was given.
Message == IF call = "seal" THEN mem[dst] ELSE IF inplace THEN before ELSE mem["in"]

AdByte == {{<<"ad", i>>} : i \in Nat}

Inside == {"fused"} \cup Sealing \cup Opening

\* The record and its tag lie within the buffers.
Fits ==
  /\ ad \in Seq(AdByte) /\ sealed.ad \in Seq(AdByte)
  /\ Len(sealed.record) <= SizeSpace
  /\ pc = "start" /\ call = "open" => len <= SizeSpace
  /\ pc \in Inside => len + (IF call = "seal" THEN TagLen ELSE 0) <= SizeSpace

\* What has been authenticated is the front of the message, and of an open in place
\* nothing further on has been overwritten.
Order ==
  /\ pc = "start" => crypted = 0 /\ hashed = <<>>
  /\ pc = "open_tag" => UntouchedFrom(0)
  /\ pc = "fused" =>
       /\ crypted <= len /\ UntouchedFrom(crypted)
       /\ Len(hashed) \in Nat /\ Len(hashed) <= len
       /\ hashed = Bytes(Message, 0, Len(hashed))
       /\ call = "seal" => Len(hashed) <= crypted

\* The tag computed, once it is.
Tagged ==
  pc \in {"open_crypt", "verify"} => tag = TagOf(Layout(ad, Bytes(Message, 0, len)))

TagInv == Fits /\ Order /\ Tagged /\ TagCoversRecord

LEMMA BytesSame ==
  ASSUME NEW n \in Nat, NEW from \in Nat, NEW b, NEW c,
         \A i \in from .. from + n - 1 : b[i] = c[i]
  PROVE  Bytes(b, from, n) = Bytes(c, from, n)
<1>1. \A i \in 1 .. n : from + i - 1 \in from .. from + n - 1
  OBVIOUS
<1> QED BY <1>1 DEF Bytes

LEMMA BytesType ==
  ASSUME NEW n \in Nat, NEW from \in Nat, NEW b, NEW S,
         \A i \in from .. from + n - 1 : b[i] \in S
  PROVE  Bytes(b, from, n) \in Seq(S) /\ Len(Bytes(b, from, n)) = n
<1>1. \A i \in 1 .. n : from + i - 1 \in from .. from + n - 1
  OBVIOUS
<1>2. Bytes(b, from, n) \in [1 .. n -> S]
  BY <1>1 DEF Bytes
<1> QED BY <1>2, SeqDef, BytesLength

\* Bytes and the bytes after them.
LEMMA BytesConcat ==
  ASSUME NEW k \in Nat, NEW n \in Nat, NEW b
  PROVE  Bytes(b, 0, k) \o Bytes(b, k, n) = Bytes(b, 0, k + n)
<1> DEFINE S == {b[i] : i \in 0 .. k + n - 1}
           x == Bytes(b, 0, k)
           y == Bytes(b, k, n)
           z == Bytes(b, 0, k + n)
<1>1. x \in Seq(S) /\ Len(x) = k
  <2>1. \A i \in 0 .. 0 + k - 1 : b[i] \in S
    OBVIOUS
  <2> QED BY <2>1, BytesType
<1>2. y \in Seq(S) /\ Len(y) = n
  <2>1. \A i \in k .. k + n - 1 : b[i] \in S
    OBVIOUS
  <2> QED BY <2>1, BytesType
<1>3. z \in Seq(S) /\ Len(z) = k + n
  <2>1. \A i \in 0 .. 0 + (k + n) - 1 : b[i] \in S
    OBVIOUS
  <2>2. k + n \in Nat /\ 0 \in Nat
    OBVIOUS
  <2> QED BY <2>1, <2>2, BytesType
<1>4. \A i \in 1 .. k + n : z[i] = b[i - 1]
  BY DEF Bytes
<1>5. \A i \in 1 .. k : x[i] = b[i - 1]
  BY DEF Bytes
<1>6. \A i \in 1 .. n : y[i] = b[k + i - 1]
  BY DEF Bytes
<1> HIDE DEF x, y, z, S
<1>7. /\ x \o y \in Seq(S) /\ Len(x \o y) = k + n
      /\ \A i \in 1 .. k + n : (x \o y)[i] = IF i <= k THEN x[i] ELSE y[i - k]
  BY <1>1, <1>2, ConcatProperties
<1>8. ASSUME NEW i \in 1 .. k + n PROVE (x \o y)[i] = z[i]
  <2>1. CASE i <= k
    BY <2>1, <1>4, <1>5, <1>7
  <2>2. CASE ~(i <= k)
    <3>1. i - k \in 1 .. n /\ k + (i - k) - 1 = i - 1
      BY <2>2
    <3>2. y[i - k] = b[k + (i - k) - 1]
      BY <3>1, <1>6
    <3> QED BY <2>2, <3>1, <3>2, <1>4, <1>7
  <2> QED BY <2>1, <2>2
<1>9. x \o y = z
  BY <1>3, <1>7, <1>8, SeqEqual
<1> QED BY <1>9 DEF x, y, z

\* The portable path and the kernels authenticate the same bytes.
LEMMA SameTag ==
  ASSUME NEW a \in Seq(AdByte), NEW n \in Nat, NEW b
  PROVE  TagOf(TagInput(a, Bytes(b, 0, n)).absorbed) = TagOf(Layout(a, Bytes(b, 0, n)))
<1> DEFINE ct == Bytes(b, 0, n)
           B  == {b[i] : i \in 0 .. n - 1}
           l  == Lens(Len(a), Len(ct))
           L  == {l[i] : i \in 1 .. BlockLen}
           S  == AdByte \cup B \cup L \cup {ZeroByte}
<1>1. ct \in Seq(B)
  <2>1. \A i \in 0 .. 0 + n - 1 : b[i] \in B
    OBVIOUS
  <2> QED BY <2>1, BytesType
<1>2. l \in Seq(L)
  <2>1. l \in [1 .. BlockLen -> L]
    <3>1. DOMAIN l = 1 .. BlockLen
      BY DEF Lens
    <3>2. l = [i \in 1 .. BlockLen |-> l[i]]
      BY DEF Lens
    <3> HIDE DEF l
    <3> QED BY <3>1, <3>2
  <2> QED BY <2>1, SeqDef, Block, SMTT(30)
<1> HIDE DEF ct, l
<1>3. AdByte \subseteq S /\ B \subseteq S /\ L \subseteq S /\ ZeroByte \in S
  OBVIOUS
<1> HIDE DEF S, B, L
<1>4. a \in Seq(S) /\ ct \in Seq(S) /\ l \in Seq(S)
  BY <1>1, <1>2, <1>3, SeqMonotonic
<1>5. TagInput(a, ct).absorbed = Layout(a, ct)
  BY <1>3, <1>4, TagInputIsLayout DEF l
<1> QED BY <1>5 DEF ct

LEMMA AdBytesType == ASSUME NEW n \in Nat PROVE AdBytes(n) \in Seq(AdByte)
<1>1. AdBytes(n) \in [1 .. n -> AdByte]
  BY DEF AdBytes, AdByte
<1> QED BY <1>1, SeqDef

LEMMA InitTagInv == Init => TagInv
<1> SUFFICES ASSUME Init PROVE TagInv
  OBVIOUS
<1>1. ad \in Seq(AdByte)
  <2>1. PICK n \in AdLengths : ad = AdBytes(n)
    BY DEF Init
  <2>2. n \in Nat
    BY SizeAssumption, Sizes
  <2> QED BY <2>1, <2>2, AdBytesType
<1>2. sealed.ad \in Seq(AdByte) /\ Len(sealed.record) <= SizeSpace
  <2>1. sealed.ad = <<>> /\ sealed.record = <<>>
    BY DEF Init
  <2>2. <<>> \in Seq(AdByte) /\ Len(<<>>) = 0
    BY EmptySeq
  <2> QED BY <2>1, <2>2, Sizes
<1>3. Fits
  BY <1>1, <1>2 DEF Init, Fits, Inside, Sealing, Opening
<1>4. Order /\ Tagged /\ TagCoversRecord
  BY DEF Init, Order, Tagged, TagCoversRecord
<1> QED BY <1>3, <1>4 DEF TagInv

LEMMA RejectKeepsTag ==
  ASSUME TagInv, Reject
  PROVE  TagInv'
<1>1. Fits'
  BY DEF TagInv, Fits, Reject, Setting, Inside, Sealing, Opening
<1>2. Order' /\ Tagged' /\ TagCoversRecord'
  BY DEF Order, Tagged, TagCoversRecord, Reject
<1> QED BY <1>1, <1>2 DEF TagInv

LEMMA BeginKeepsTag ==
  ASSUME IInv, TagInv, pc = "start",
         NEW n \in Nat, NEW space, NEW portable,
         n + (IF call = "seal" THEN TagLen ELSE 0) <= SizeSpace,
         portable \in {"seal_crypt", "open_tag"},
         Begin(n, space, portable)
  PROVE  TagInv'
<1>1. /\ dst' = dst /\ mem' = mem /\ before' = before /\ call' = call /\ len' = n
      /\ ad' = ad /\ sealed' = sealed /\ crypted' = crypted /\ hashed' = hashed
  BY DEF Begin, Setting, dst
<1>2. pc' \in {"fused", "seal_crypt", "open_tag"}
  BY DEF Begin
<1>3. Fits'
  BY <1>1, <1>2 DEF TagInv, Fits
<1>4. crypted = 0 /\ hashed = <<>> /\ UntouchedFrom(0)
  BY DEF TagInv, Order, IInv, Room
<1>5. UntouchedFrom(0)'
  BY <1>1, <1>4 DEF UntouchedFrom
<1>6. Len(hashed') = 0
  BY <1>1, <1>4
<1>7. hashed' = Bytes(Message', 0, 0)
  BY <1>1, <1>4 DEF Bytes
<1>8. Order'
  BY <1>1, <1>2, <1>4, <1>5, <1>6, <1>7 DEF Order
<1>9. Tagged' /\ TagCoversRecord'
  BY <1>2 DEF Tagged, TagCoversRecord
<1> QED BY <1>3, <1>8, <1>9 DEF TagInv

LEMMA SealScatterKeepsTag ==
  ASSUME IInv, TagInv, pc = "start", call = "seal",
         NEW n \in Nat, NEW max \in Int, NEW extra, NEW space,
         max >= TagLen => n + TagLen <= SizeSpace,
         SealScatter(n, max, extra, space)
  PROVE  TagInv'
<1>1. CASE extra # 0 \/ max < TagLen
  BY <1>1, RejectKeepsTag DEF SealScatter
<1>2. CASE ~(extra # 0 \/ max < TagLen)
  <2>1. Begin(n, space, "seal_crypt")
    BY <1>2 DEF SealScatter
  <2>2. n + (IF call = "seal" THEN TagLen ELSE 0) <= SizeSpace
    BY <1>2, Sizes
  <2> QED BY <2>1, <2>2, BeginKeepsTag
<1> QED BY <1>1, <1>2

LEMMA SealCallKeepsTag == IInv /\ TagInv /\ SealCall => TagInv'
<1> SUFFICES ASSUME IInv, TagInv, SealCall PROVE TagInv'
  OBVIOUS
<1>1. PICK n \in Lengths, max \in Rooms :
        \/ Seal(n, max)
        \/ n + max < SizeSpace /\ \E extra \in {0, 1} : SealScatter(n, max, extra, n + max)
  BY DEF SealCall
<1>2. n \in 0 .. SizeSpace - 1 /\ max \in 0 .. SizeSpace - 1
  BY SizeAssumption
<1>3. n \in Nat /\ max \in Int
  BY <1>2, Sizes
<1>4. pc = "start" /\ call = "seal"
  BY DEF SealCall
<1>5. CASE Seal(n, max)
  <2> DEFINE need == (n + TagLen) % SizeSpace
  <2>1. CASE need < n \/ max < need
    BY <2>1, <1>5, RejectKeepsTag DEF Seal
  <2>2. CASE ~(need < n \/ max < need)
    <3>1. need \in 0 .. SizeSpace - 1
      BY <1>3, Sizes, Z3
    <3>2. need = n + TagLen
      <4>1. (n + TagLen) % SizeSpace >= n
        BY <2>2, <3>1, <1>3
      <4> QED BY <4>1, <1>2, Sizes, WrapShows
    <3>3. n + TagLen <= SizeSpace
      BY <3>1, <3>2, <1>3, Sizes
    <3>4. (max - n) % SizeSpace \in Int
      BY <1>3, Sizes, Z3
    <3>5. SealScatter(n, (max - n) % SizeSpace, 0, max)
      BY <2>2, <1>5 DEF Seal
    <3> QED BY <3>3, <3>4, <3>5, <1>3, <1>4, SealScatterKeepsTag
  <2> QED BY <2>1, <2>2
<1>6. CASE n + max < SizeSpace /\ \E extra \in {0, 1} : SealScatter(n, max, extra, n + max)
  <2>1. PICK extra \in {0, 1} : SealScatter(n, max, extra, n + max)
    BY <1>6
  <2>2. max >= TagLen => n + TagLen <= SizeSpace
    BY <1>3, <1>6, Sizes
  <2> QED BY <2>1, <2>2, <1>3, <1>4, SealScatterKeepsTag
<1> QED BY <1>1, <1>5, <1>6

LEMMA OpenCallKeepsTag == IInv /\ TagInv /\ OpenCall => TagInv'
<1> SUFFICES ASSUME IInv, TagInv, OpenCall PROVE TagInv'
  OBVIOUS
<1>1. pc = "start" /\ call = "open" /\ call # "seal" /\ len \in Nat /\ len <= SizeSpace
  BY DEF OpenCall, IInv, Shape, TagInv, Fits
<1>2. ASSUME NEW n \in Nat, NEW l, NEW space, n <= len, OpenGather(n, l, space)
      PROVE  TagInv'
  <2>1. CASE l # TagLen
    BY <2>1, <1>2, RejectKeepsTag DEF OpenGather
  <2>2. CASE l = TagLen
    <3>1. Begin(n, space, "open_tag")
      BY <2>2, <1>2 DEF OpenGather
    <3>2. n + (IF call = "seal" THEN TagLen ELSE 0) <= SizeSpace
      BY <1>1, <1>2, Sizes
    <3> QED BY <3>1, <3>2, <1>1, BeginKeepsTag
  <2> QED BY <2>1, <2>2
<1>3. ASSUME NEW max \in Rooms, Open(len, max)
      PROVE  TagInv'
  <2>1. max \in Int
    BY SizeAssumption, Sizes
  <2>2. CASE len < TagLen \/ max < len - TagLen
    BY <2>2, <1>3, RejectKeepsTag DEF Open
  <2>3. CASE ~(len < TagLen \/ max < len - TagLen)
    <3>1. len - TagLen \in Nat /\ len - TagLen <= len
      BY <2>1, <2>3, <1>1, Sizes
    <3>2. OpenGather(len - TagLen, TagLen, max)
      BY <2>3, <1>3 DEF Open
    <3> HIDE DEF OpenGather
    <3> QED BY <3>1, <3>2, <1>2
  <2> QED BY <2>2, <2>3
<1>4. ASSUME NEW n \in 0 .. len, OpenGather(n, len - n, n)
      PROVE  TagInv'
  <2>1. n \in Nat /\ n <= len
    BY <1>1
  <2> QED BY <2>1, <1>2, <1>4
<1> QED BY <1>3, <1>4 DEF OpenCall

\* A buffer not yet written is as it was.
LEMMA Untouched ==
  ASSUME NEW n \in Int, UntouchedFrom(n), NEW i \in Offset, i >= n
  PROVE  mem[dst][i] = before[i]
<1>1. i \in Int
  BY Sizes DEF Offset
<1> QED BY <1>1 DEF UntouchedFrom

LEMMA SealCryptKeepsTag == TagInv /\ SealCrypt => TagInv'
<1> SUFFICES ASSUME TagInv, SealCrypt PROVE TagInv'
  OBVIOUS
<1>1. Fits'
  BY DEF TagInv, Fits, SealCrypt, args, Inside, Sealing, Opening
<1>2. Order' /\ Tagged' /\ TagCoversRecord'
  BY DEF Order, Tagged, TagCoversRecord, SealCrypt
<1> QED BY <1>1, <1>2 DEF TagInv

\* The tag is behind the ciphertext it covers.
LEMMA SealReturnKeepsTag ==
  ASSUME IInv, TagInv, call = "seal", pc \in {"fused"} \cup Sealing,
         SealReturn(TagOf(Layout(ad, Bytes(mem[dst], 0, len)))), UNCHANGED <<args, before>>
  PROVE  TagInv'
<1> DEFINE t == TagOf(Layout(ad, Bytes(mem[dst], 0, len)))
<1>1. dst' = dst /\ len' = len /\ call' = call /\ ad' = ad /\ nonce' = nonce
  BY DEF args, dst
<1>2. len \in Nat /\ len + TagLen <= SizeSpace /\ DOMAIN mem = Buffer
  BY DEF IInv, Shape, TagInv, Fits, Inside
<1>3. Len(t) = TagLen /\ t = [i \in 1 .. TagLen |-> t[i]]
  BY TagLength DEF TagOf
<1>4. /\ mem' = [mem EXCEPT ![dst] = Put(@, len, t)] /\ pc' = "returned"
      /\ sealed' = [len |-> len, ad |-> ad, record |-> Bytes(mem'[dst], 0, len + TagLen)]
  BY DEF SealReturn
<1> HIDE DEF t
<1>5. mem'[dst] = Put(mem[dst], len, t)
  BY <1>2, <1>4, DstIsBuffer
<1>6. Bytes(mem'[dst], 0, len) = Bytes(mem[dst], 0, len)
  <2>1. ASSUME NEW i \in 0 .. 0 + len - 1 PROVE mem'[dst][i] = mem[dst][i]
    <3>1. i \in Offset /\ i \in Int /\ ~(i \in len .. len + TagLen - 1)
      BY <1>2, Sizes DEF Offset
    <3>2. Put(mem[dst], len, t)[i] = mem[dst][i]
      BY <1>3, <3>1 DEF Put
    <3> QED BY <3>2, <1>5
  <2> QED BY <2>1, <1>2, BytesSame
<1>7. Bytes(mem'[dst], len, TagLen) = t
  <2>1. ASSUME NEW i \in 1 .. TagLen PROVE mem'[dst][len + i - 1] = t[i]
    <3> DEFINE o == len + i - 1
    <3>1. o \in Offset /\ o \in len .. len + TagLen - 1 /\ o - len + 1 = i
      BY <1>2, Sizes DEF Offset
    <3> HIDE DEF o
    <3>2. Put(mem[dst], len, t)[o] = t[o - len + 1]
      BY <1>3, <3>1 DEF Put
    <3> QED BY <3>1, <3>2, <1>5 DEF o
  <2>2. Bytes(mem'[dst], len, TagLen) = [i \in 1 .. TagLen |-> mem'[dst][len + i - 1]]
    BY DEF Bytes
  <2> QED BY <2>1, <2>2, <1>3
<1>8. Fits'
  <2>1. sealed'.ad = ad /\ sealed'.record = Bytes(mem'[dst], 0, len + TagLen)
    BY <1>4
  <2>2. Len(sealed'.record) = len + TagLen
    BY <2>1, <1>2, Sizes, BytesLength
  <2>3. ad \in Seq(AdByte)
    BY DEF TagInv, Fits
  <2> QED BY <2>1, <2>2, <2>3, <1>1, <1>2, <1>4 DEF Fits, Inside, Sealing, Opening
<1>9. Order' /\ Tagged'
  BY <1>4 DEF Order, Tagged
<1>10. TagCoversRecord'
  <2>1. t = TagOf(Layout(ad, Bytes(mem'[dst], 0, len)))
    BY <1>6 DEF t
  <2>2. t = TagOf(Layout(ad, Bytes(mem[dst], 0, len)))'
    BY <2>1, <1>1 DEF TagOf
  <2> QED BY <2>2, <1>1, <1>4, <1>7 DEF TagCoversRecord
<1> QED BY <1>8, <1>9, <1>10 DEF TagInv

LEMMA SealTagKeepsTag == IInv /\ TagInv /\ SealTag => TagInv'
<1> SUFFICES ASSUME IInv, TagInv, SealTag PROVE TagInv'
  OBVIOUS
<1>1. pc \in Sealing /\ call = "seal" /\ len \in Nat
  BY DEF IInv, Shape, SealTag, Sealing
<1>2. ad \in Seq(AdByte)
  BY DEF TagInv, Fits
<1>3. TagPortable(Bytes(mem[dst], 0, len)) = TagOf(Layout(ad, Bytes(mem[dst], 0, len)))
  BY <1>1, <1>2, SameTag DEF TagPortable
<1> QED BY <1>1, <1>3, SealReturnKeepsTag DEF SealTag

\* Open computes the tag before it writes.
LEMMA OpenTagKeepsTag == IInv /\ TagInv /\ OpenTag => TagInv'
<1> SUFFICES ASSUME IInv, TagInv, OpenTag PROVE TagInv'
  OBVIOUS
<1>1. /\ pc = "open_tag" /\ pc' = "open_crypt" /\ call = "open" /\ len \in Nat
      /\ UNCHANGED <<args, mem, before, sealed>>
      /\ tag' = TagPortable(Bytes(mem["in"], 0, len))
  BY DEF OpenTag, IInv, Shape, Opening
<1>2. UntouchedFrom(0) /\ ad \in Seq(AdByte) /\ len <= SizeSpace
  BY <1>1 DEF TagInv, Order, Fits, Inside, Opening
<1>3. Bytes(mem["in"], 0, len) = Bytes(Message, 0, len)
  <2>1. CASE inplace
    <3>1. ASSUME NEW i \in 0 .. 0 + len - 1 PROVE mem["in"][i] = before[i]
      <4>1. i \in Offset /\ i >= 0
        BY <1>1, <1>2, Sizes DEF Offset
      <4> QED BY <4>1, <1>2, <2>1, Untouched DEF dst
    <3>2. Bytes(mem["in"], 0, len) = Bytes(before, 0, len)
      BY <3>1, <1>1, BytesSame
    <3> QED BY <3>2, <2>1, <1>1 DEF Message
  <2>2. CASE ~inplace
    BY <2>2, <1>1 DEF Message
  <2> QED BY <2>1, <2>2
<1>4. Message' = Message /\ ad' = ad /\ nonce' = nonce /\ len' = len /\ call' = call
  BY <1>1 DEF Message, args, dst
<1>5. Tagged'
  <2>1. tag' = TagOf(Layout(ad, Bytes(Message, 0, len)))
    BY <1>1, <1>2, <1>3, SameTag DEF TagPortable
  <2>2. tag' = TagOf(Layout(ad, Bytes(Message, 0, len)))'
    BY <2>1, <1>4 DEF TagOf
  <2> QED BY <2>2 DEF Tagged
<1>6. Fits'
  BY <1>1, <1>4 DEF TagInv, Fits, Inside, Opening, Sealing
<1>7. Order' /\ TagCoversRecord'
  BY <1>1 DEF Order, TagCoversRecord
<1> QED BY <1>5, <1>6, <1>7 DEF TagInv

\* What open writes it does not read again.
LEMMA OpenKeepsMessage ==
  ASSUME Shape, call = "open", UNCHANGED <<args, before>>,
         NEW from, NEW to, mem' = Crypted(from, to) \/ mem' = mem
  PROVE  Message' = Message
<1>1. call' = call /\ inplace' = inplace /\ before' = before
  BY DEF args
<1>2. ASSUME ~inplace PROVE mem'["in"] = mem["in"]
  BY <1>2 DEF Crypted, dst, Shape, Buffer
<1> QED BY <1>1, <1>2 DEF Message

LEMMA OpenCryptKeepsTag == IInv /\ TagInv /\ OpenCrypt => TagInv'
<1> SUFFICES ASSUME IInv, TagInv, OpenCrypt PROVE TagInv'
  OBVIOUS
<1>1. /\ pc = "open_crypt" /\ pc' = "verify" /\ call = "open" /\ call' = call /\ tag' = tag
      /\ UNCHANGED <<args, before, sealed>> /\ mem' = Crypted(0, len) /\ Shape
  BY DEF OpenCrypt, IInv, Shape, Opening, args
<1>2. Message' = Message /\ ad' = ad /\ nonce' = nonce /\ len' = len /\ inplace' = inplace
  BY <1>1, OpenKeepsMessage DEF args
<1>3. tag' = TagOf(Layout(ad, Bytes(Message, 0, len)))'
  <2>1. tag' = TagOf(Layout(ad, Bytes(Message, 0, len)))
    BY <1>1 DEF TagInv, Tagged
  <2> QED BY <2>1, <1>2 DEF TagOf
<1>4. Tagged'
  BY <1>3 DEF Tagged
<1>5. TagCoversRecord'
  BY <1>1, <1>3 DEF TagCoversRecord, Message
<1>6. Fits'
  BY <1>1, <1>2 DEF TagInv, Fits, Inside, Opening, Sealing
<1>7. Order'
  BY <1>1 DEF Order
<1> QED BY <1>4, <1>5, <1>6, <1>7 DEF TagInv

LEMMA VerifyKeepsTag == IInv /\ TagInv /\ Verify => TagInv'
<1> SUFFICES ASSUME IInv, TagInv, Verify PROVE TagInv'
  OBVIOUS
<1>1. /\ pc' = "returned" /\ call' = "open" /\ UNCHANGED <<args, sealed>>
  BY DEF Verify, IInv, Shape, Opening, args
<1>2. Fits'
  BY <1>1 DEF TagInv, Fits, args, Inside, Sealing, Opening
<1>3. Order' /\ Tagged' /\ TagCoversRecord'
  BY <1>1 DEF Order, Tagged, TagCoversRecord
<1> QED BY <1>2, <1>3 DEF TagInv

-----------------------------------------------------------------------------
\* The AVX-512 kernels.

\* What they may authenticate is still there to be read.
LEMMA HashedFront ==
  ASSUME IInv, TagInv, pc = "fused",
         NEW to \in Nat, Len(hashed) <= to, to <= len,
         Len(hashed) < to => Kernels!MayAuthenticate(to, crypted)
  PROVE  HashedTo(to) = Bytes(Message, 0, to)
<1> DEFINE h == Len(hashed)
<1>1. /\ h \in Nat /\ hashed = Bytes(Message, 0, h) /\ UntouchedFrom(crypted)
  BY DEF TagInv, Order
<1>2. len \in Nat /\ len <= SizeSpace /\ crypted \in Nat /\ call \in {"seal", "open"}
  BY Sizes DEF IInv, Shape, TagInv, Fits, Inside
<1> HIDE DEF h
<1>3. to - h \in Nat /\ h + (to - h) = to
  BY <1>1, <1>2 DEF h
<1>4. Bytes(Ciphertext, h, to - h) = Bytes(Message, h, to - h)
  <2>1. CASE call = "seal" \/ ~inplace
    BY <2>1 DEF Ciphertext, Message
  <2>2. CASE call = "open" /\ inplace
    <3>1. Ciphertext = mem[dst] /\ Message = before
      BY <2>2 DEF Ciphertext, Message, dst
    <3>2. ASSUME NEW i \in h .. h + (to - h) - 1 PROVE mem[dst][i] = before[i]
      <4>1. h < to /\ i \in Offset /\ i >= h
        BY <1>1, <1>2, <1>3, Sizes DEF Offset
      <4>2. crypted <= h
        BY <4>1, <2>2 DEF Kernels!MayAuthenticate, h
      <4>3. i >= crypted /\ crypted \in Int
        BY <4>1, <4>2, <1>1, <1>2, Sizes DEF Offset
      <4> QED BY <4>1, <4>3, <1>1, Untouched
    <3>3. Bytes(mem[dst], h, to - h) = Bytes(before, h, to - h)
      BY <3>2, <1>1, <1>3, BytesSame
    <3> QED BY <3>1, <3>3
  <2> QED BY <2>1, <2>2, <1>2
<1>5. Bytes(Message, 0, h) \o Bytes(Message, h, to - h) = Bytes(Message, 0, h + (to - h))
  BY <1>1, <1>3, BytesConcat
<1>6. HashedTo(to) = hashed \o Bytes(Ciphertext, h, to - h)
  BY DEF HashedTo, h
<1> QED BY <1>1, <1>3, <1>4, <1>5, <1>6

LEMMA FusedAuthenticateKeepsTag == IInv /\ TagInv /\ FusedAuthenticate => TagInv'
<1> SUFFICES ASSUME IInv, TagInv, FusedAuthenticate PROVE TagInv'
  OBVIOUS
<1>1. /\ pc = "fused" /\ pc' = "fused" /\ crypted' = crypted
      /\ UNCHANGED <<args, mem, before, sealed>>
  BY DEF FusedAuthenticate
<1>2. PICK to \in Len(hashed) + 1 .. len :
        Kernels!MayAuthenticate(to, crypted) /\ hashed' = HashedTo(to)
  BY DEF FusedAuthenticate
<1>3. /\ crypted <= len /\ UntouchedFrom(crypted) /\ Len(hashed) \in Nat
      /\ call = "seal" => Len(hashed) <= crypted
  BY <1>1 DEF TagInv, Order
<1>4. len \in Nat /\ call \in {"seal", "open"}
  BY DEF IInv, Shape
<1>5. to \in Nat /\ Len(hashed) <= to /\ to <= len
  BY <1>2, <1>3, <1>4
<1>6. hashed' = Bytes(Message, 0, to)
  BY <1>1, <1>2, <1>5, HashedFront
<1>7. Len(hashed') = to
  BY <1>5, <1>6, BytesLength
<1>8. call = "seal" => to <= crypted
  BY <1>2 DEF Kernels!MayAuthenticate
<1>9. /\ Message' = Message /\ dst' = dst /\ len' = len /\ call' = call /\ ad' = ad
  BY <1>1 DEF Message, dst, args
<1>10. Order'
  <2>1. UntouchedFrom(crypted)'
    BY <1>1, <1>3, <1>9 DEF UntouchedFrom
  <2> QED BY <2>1, <1>1, <1>3, <1>5, <1>6, <1>7, <1>8, <1>9 DEF Order
<1>11. Fits'
  BY <1>1, <1>9 DEF TagInv, Fits
<1>12. Tagged' /\ TagCoversRecord'
  BY <1>1 DEF Tagged, TagCoversRecord
<1> QED BY <1>10, <1>11, <1>12 DEF TagInv

LEMMA FusedCryptKeepsTag == IInv /\ TagInv /\ FusedCrypt => TagInv'
<1> SUFFICES ASSUME IInv, TagInv, FusedCrypt PROVE TagInv'
  OBVIOUS
<1>1. /\ pc = "fused" /\ pc' = "fused" /\ hashed' = hashed
      /\ UNCHANGED <<args, before, sealed>>
  BY DEF FusedCrypt
<1>2. PICK to \in crypted + 1 .. len : mem' = Crypted(crypted, to) /\ crypted' = to
  BY DEF FusedCrypt
<1>3. /\ crypted <= len /\ UntouchedFrom(crypted)
      /\ Len(hashed) \in Nat /\ Len(hashed) <= len
      /\ hashed = Bytes(Message, 0, Len(hashed))
      /\ call = "seal" => Len(hashed) <= crypted
  BY <1>1 DEF TagInv, Order
<1>4. Shape /\ len \in Nat /\ crypted \in Nat /\ call \in {"seal", "open"} /\ DOMAIN mem = Buffer
  BY DEF IInv, Shape
<1>5. to \in Nat /\ crypted <= to /\ to <= len
  BY <1>2, <1>4
<1>6. dst' = dst /\ len' = len /\ call' = call /\ ad' = ad
  BY <1>1 DEF dst, args
<1>7. UntouchedFrom(to)'
  <2> SUFFICES ASSUME NEW i \in Offset, mem'[dst][i] # before[i], ~(i < to) PROVE FALSE
    BY <1>1, <1>6 DEF UntouchedFrom
  <2>1. i \in Int /\ i >= to /\ i >= crypted
    BY <1>4, <1>5, Sizes DEF Offset
  <2>2. mem'[dst][i] = mem[dst][i]
    BY <2>1, <1>2, <1>4, <1>5, CryptedWrites
  <2> QED BY <2>1, <2>2, <1>3, <1>4, Untouched
<1>8. hashed = Bytes(Message', 0, Len(hashed))
  <2>1. CASE call = "seal"
    <3>1. Message = mem[dst] /\ Message' = mem'[dst]
      BY <2>1, <1>6 DEF Message
    <3>2. ASSUME NEW i \in 0 .. 0 + Len(hashed) - 1 PROVE mem'[dst][i] = mem[dst][i]
      <4>1. i \in Int /\ ~(i \in crypted .. to - 1)
        BY <2>1, <1>3, <1>4
      <4>2. i \in Offset
        <5>1. len <= SizeSpace
          BY <2>1, <1>1, <1>4, Sizes DEF TagInv, Fits, Inside
        <5> QED BY <5>1, <1>3, <1>4, Sizes DEF Offset
      <4>3. mem'[dst] = [o \in Offset |->
                           IF o \in crypted .. to - 1
                           THEN Xor(mem["in"][o], {<<"keystream", nonce, o>>}) ELSE mem[dst][o]]
        BY <1>2, <1>4, DstIsBuffer DEF Crypted
      <4> QED BY <4>1, <4>2, <4>3
    <3>3. Bytes(mem'[dst], 0, Len(hashed)) = Bytes(mem[dst], 0, Len(hashed))
      BY <3>2, <1>3, BytesSame, ZenonT(60)
    <3> QED BY <3>1, <3>3, <1>3
  <2>2. CASE call = "open"
    <3>1. Message' = Message
      BY <2>2, <1>1, <1>2, <1>4, OpenKeepsMessage
    <3> QED BY <3>1, <1>3
  <2> QED BY <2>1, <2>2, <1>4
<1>9. call = "seal" => Len(hashed) <= to
  BY <1>3, <1>4, <1>5
<1>10. Order'
  BY <1>1, <1>2, <1>3, <1>5, <1>6, <1>7, <1>8, <1>9 DEF Order
<1>11. Fits'
  BY <1>1, <1>6 DEF TagInv, Fits
<1>12. Tagged' /\ TagCoversRecord'
  BY <1>1 DEF Tagged, TagCoversRecord
<1> QED BY <1>10, <1>11, <1>12 DEF TagInv

LEMMA FusedFinishKeepsTag == IInv /\ TagInv /\ FusedFinish => TagInv'
<1> SUFFICES ASSUME IInv, TagInv, FusedFinish PROVE TagInv'
  OBVIOUS
<1>1. /\ pc = "fused" /\ UNCHANGED <<args, before>> /\ hashed' = HashedTo(len)
      /\ Len(hashed) < len => Kernels!MayAuthenticate(len, crypted)
  BY DEF FusedFinish
<1>2. len \in Nat /\ Len(hashed) <= len /\ call \in {"seal", "open"}
  BY <1>1 DEF IInv, Shape, TagInv, Order
<1>3. hashed' = Bytes(Message, 0, len)
  BY <1>1, <1>2, HashedFront
<1>4. CASE call = "seal"
  <2>1. SealReturn(TagFused(hashed'))
    BY <1>4 DEF FusedFinish
  <2>2. TagFused(hashed') = TagOf(Layout(ad, Bytes(mem[dst], 0, len)))
    BY <1>3, <1>4 DEF TagFused, Message
  <2> QED BY <2>1, <2>2, <1>1, <1>4, SealReturnKeepsTag
<1>5. CASE call = "open"
  <2>1. pc' = "verify" /\ UNCHANGED <<mem, sealed>> /\ tag' = TagFused(hashed')
    BY <1>5 DEF FusedFinish
  <2>2. /\ Message' = Message /\ ad' = ad /\ nonce' = nonce /\ len' = len /\ call' = call
        /\ inplace' = inplace
    BY <2>1, <1>1 DEF Message, dst, args
  <2>3. tag' = TagOf(Layout(ad, Bytes(Message, 0, len)))'
    <3>1. tag' = TagOf(Layout(ad, Bytes(Message, 0, len)))
      BY <2>1, <1>3 DEF TagFused
    <3> QED BY <3>1, <2>2 DEF TagOf
  <2>4. Tagged'
    BY <2>3 DEF Tagged
  <2>5. TagCoversRecord'
    BY <2>1, <2>2, <2>3, <1>5 DEF TagCoversRecord, Message
  <2>6. Fits'
    BY <2>1, <2>2, <1>1 DEF TagInv, Fits, Inside, Opening, Sealing
  <2>7. Order'
    BY <2>1 DEF Order
  <2> QED BY <2>4, <2>5, <2>6, <2>7 DEF TagInv
<1> QED BY <1>2, <1>4, <1>5

LEMMA DeliverKeepsTag == IInv /\ TagInv /\ Deliver => TagInv'
<1> SUFFICES ASSUME IInv, TagInv, Deliver PROVE TagInv'
  OBVIOUS
<1>1. PICK d \in Deliveries : len' = d.len /\ ad' = d.ad
  BY DEF Deliver
<1>2. pc' = "start" /\ call' = "open" /\ crypted' = 0 /\ hashed' = <<>> /\ sealed' = sealed
  BY DEF Deliver
<1>3. sealed.ad \in Seq(AdByte) /\ Len(sealed.record) <= SizeSpace /\ Len(sealed.record) \in Nat
  BY DEF TagInv, Fits, IInv, Shape
<1>4. len' <= SizeSpace /\ ad' \in Seq(AdByte)
  <2> DEFINE all == [len |-> Len(sealed.record), changed |-> 0, nonce |-> 1, ad |-> sealed.ad]
             longer == sealed.ad \o AdBytes(1)
  <2>1. all.len = Len(sealed.record) /\ all.ad = sealed.ad
    OBVIOUS
  <2>2. longer \in Seq(AdByte)
    BY <1>3, AdBytesType, ConcatProperties
  <2>3. d = all \/ (\E n \in 0 .. all.len - 1 : d = [all EXCEPT !.len = n])
          \/ (\E i \in 1 .. all.len : d = [all EXCEPT !.changed = i])
          \/ d = [all EXCEPT !.nonce = 2] \/ d = [all EXCEPT !.ad = longer]
    BY <1>1 DEF Deliveries
  <2> HIDE DEF longer
  <2>4. CASE d = all
    BY <2>4, <1>1, <1>3
  <2>5. ASSUME NEW n \in 0 .. all.len - 1, d = [all EXCEPT !.len = n]
        PROVE  len' <= SizeSpace /\ ad' \in Seq(AdByte)
    <3>1. d.len = n /\ d.ad = sealed.ad
      BY <2>5
    <3> QED BY <3>1, <2>1, <1>1, <1>3, Sizes
  <2>6. ASSUME NEW i \in 1 .. all.len, d = [all EXCEPT !.changed = i]
        PROVE  len' <= SizeSpace /\ ad' \in Seq(AdByte)
    <3>1. d.len = Len(sealed.record) /\ d.ad = sealed.ad
      BY <2>6
    <3> QED BY <3>1, <1>1, <1>3
  <2>7. CASE d = [all EXCEPT !.nonce = 2]
    <3>1. d.len = Len(sealed.record) /\ d.ad = sealed.ad
      BY <2>7
    <3> QED BY <3>1, <1>1, <1>3
  <2>8. CASE d = [all EXCEPT !.ad = longer]
    <3>1. d.len = Len(sealed.record) /\ d.ad = longer
      BY <2>8
    <3> QED BY <3>1, <2>2, <1>1, <1>3
  <2> QED BY <2>3, <2>4, <2>5, <2>6, <2>7, <2>8
<1>5. Fits'
  BY <1>2, <1>3, <1>4 DEF Fits, Inside, Sealing, Opening
<1>6. Order' /\ Tagged' /\ TagCoversRecord'
  BY <1>2 DEF Order, Tagged, TagCoversRecord
<1> QED BY <1>5, <1>6 DEF TagInv

LEMMA StutterKeepsTag == ASSUME TagInv, UNCHANGED vars PROVE TagInv'
<1>1. /\ Message' = Message /\ dst' = dst /\ UNCHANGED <<pc, mem, before, crypted, hashed, tag>>
      /\ UNCHANGED <<call, len, inplace, nonce, ad, result, sealed>>
  BY DEF vars, args, Message, dst
<1>2. Fits'
  BY <1>1 DEF TagInv, Fits
<1>3. Order'
  BY <1>1 DEF TagInv, Order, UntouchedFrom
<1>4. Tagged'
  <2>1. TagOf(Layout(ad, Bytes(Message, 0, len)))' = TagOf(Layout(ad, Bytes(Message, 0, len)))
    BY <1>1 DEF TagOf
  <2> QED BY <2>1, <1>1 DEF TagInv, Tagged
<1>5. TagCoversRecord'
  BY <1>1 DEF TagInv, TagCoversRecord, TagOf
<1> QED BY <1>2, <1>3, <1>4, <1>5 DEF TagInv

LEMMA NextKeepsTagInv == IInv /\ TagInv /\ [Next]_vars => TagInv'
<1> SUFFICES ASSUME IInv, TagInv, [Next]_vars PROVE TagInv'
  OBVIOUS
<1>1. CASE UNCHANGED vars
  BY <1>1, StutterKeepsTag
<1>2. CASE Next
  BY <1>2, SealCallKeepsTag, SealCryptKeepsTag, SealTagKeepsTag, DeliverKeepsTag,
     OpenCallKeepsTag, OpenTagKeepsTag, OpenCryptKeepsTag, VerifyKeepsTag,
     FusedAuthenticateKeepsTag, FusedCryptKeepsTag, FusedFinishKeepsTag DEF Next
<1> QED BY <1>1, <1>2

-----------------------------------------------------------------------------
(***************************************************************************)
(* The theorems.                                                           *)
(***************************************************************************)
LEMMA NextKeepsIInv == IInv /\ [Next]_vars => IInv'
<1> SUFFICES ASSUME IInv, [Next]_vars PROVE IInv'
  OBVIOUS
<1>1. CASE UNCHANGED vars
  BY <1>1 DEF vars, args, IInv, Shape, Room, Withheld, UntouchedFrom, WritesStayInRoom,
              NothingReleased, dst
<1>2. CASE Next
  BY <1>2, SealCallKeeps, SealCryptKeeps, SealTagKeeps, DeliverKeeps, OpenCallKeeps,
     OpenTagKeeps, OpenCryptKeeps, VerifyKeeps, FusedAuthenticateKeeps, FusedCryptKeeps,
     FusedFinishKeeps DEF Next
<1> QED BY <1>1, <1>2

\* Every call of seal and open, by either path, keeps its lengths and its writes to
\* the record within each other until it returns.
THEOREM ApiInvariant == Spec => []IInv
  BY InitIInv, NextKeepsIInv, PTL DEF Spec

\* The tests of seal and open on in_len and max_out_len, sums that wrap a size_t
\* included, are enough for every write: none falls outside the caller's buffers.
THEOREM ApiWritesStayInRoom == Spec => []WritesStayInRoom
<1>1. IInv => WritesStayInRoom
  <2> SUFFICES ASSUME IInv, NEW i \in Offset, mem[dst][i] # before[i] PROVE i < room
    BY DEF WritesStayInRoom
  <2>1. i \in Nat /\ len \in Nat /\ room \in Int
    BY Sizes DEF Offset, IInv, Shape
  <2>2. CASE pc = "start"
    BY <2>1, <2>2 DEF IInv, Room, UntouchedFrom
  <2>3. CASE pc \in {"fused"} \cup Sealing \cup Opening
    <3>1. i < len /\ len + (IF call = "seal" THEN TagLen ELSE 0) <= room
      BY <2>3 DEF IInv, Room, UntouchedFrom
    <3> QED BY <3>1, <2>1, Sizes
  <2>4. CASE pc = "returned"
    BY <2>4 DEF IInv, Room, WritesStayInRoom
  <2> QED BY <2>2, <2>3, <2>4 DEF IInv, Shape
<1> QED BY <1>1, ApiInvariant, PTL

\* A call that returns 0, refused or forged, in place or not, by either path, leaves
\* no byte at out but those that were there and zeros, and out_len alone.
THEOREM ApiNothingReleased == Spec => []NothingReleased
<1>1. IInv => NothingReleased
  BY DEF IInv, Withheld
<1> QED BY <1>1, ApiInvariant, PTL
\* The tag seal returns, and the one open compares, is of the associated data and the
\* ciphertext as RFC 8439 lays them out, of any lengths, whichever path computes it, in
\* whatever chunks the kernels take them and although an open in place overwrites them:
\* a record sealed by one path opens by the other.
THEOREM ApiTagCoversRecord == Spec => []TagCoversRecord
<1>1. Init => IInv /\ TagInv
  BY InitIInv, InitTagInv
<1>2. (IInv /\ TagInv) /\ [Next]_vars => (IInv /\ TagInv)'
  BY NextKeepsIInv, NextKeepsTagInv
<1>3. IInv /\ TagInv => TagCoversRecord
  BY DEF TagInv
<1> QED BY <1>1, <1>2, <1>3, PTL DEF Spec

-----------------------------------------------------------------------------
(***************************************************************************)
(* What is opened is what was sealed.                                      *)
(***************************************************************************)
\* What is in a padded message.
LEMMA PadHolds ==
  ASSUME NEW S, ZeroByte \in S, NEW m \in Seq(S)
  PROVE  /\ PadTo(m) \in Seq(S) /\ Len(PadTo(m)) \in Nat /\ Len(PadTo(m)) >= Len(m)
         /\ Len(PadTo(m)) = Len(m) + ((BlockLen - (Len(m) % BlockLen)) % BlockLen)
         /\ \A i \in 1 .. Len(m) : PadTo(m)[i] = m[i]
<1> DEFINE p == (BlockLen - (Len(m) % BlockLen)) % BlockLen
<1>1. BlockLen \in Nat /\ BlockLen > 0 /\ Len(m) \in Nat
  BY Block, LenProperties
<1>2. p \in Nat
  <2>1. Len(m) % BlockLen \in Int
    BY <1>1, Z3
  <2> DEFINE d == BlockLen - (Len(m) % BlockLen)
  <2>2. d \in Int
    BY <1>1, <2>1
  <2> HIDE DEF d
  <2>3. d % BlockLen \in Nat
    BY <1>1, <2>2, Z3
  <2> QED BY <2>3 DEF d
<1>3. PadTo(m) = m \o Zeros(p)
  BY DEF PadTo
<1> HIDE DEF p
<1> DEFINE z == Zeros(p)
<1>4. z \in Seq(S) /\ Len(z) = p
  BY <1>2, ZerosType
<1> HIDE DEF z
<1>5. /\ m \o z \in Seq(S) /\ Len(m \o z) = Len(m) + p
      /\ \A i \in 1 .. Len(m) + p : (m \o z)[i] = IF i <= Len(m) THEN m[i] ELSE z[i - Len(m)]
  BY <1>4, ConcatProperties
<1>6. \A i \in 1 .. Len(m) : (m \o z)[i] = m[i]
  BY <1>1, <1>2, <1>5
<1>7. PadTo(m) = m \o z
  BY <1>3 DEF z
<1>8. Len(PadTo(m)) \in Nat /\ Len(PadTo(m)) >= Len(m) /\ Len(PadTo(m)) = Len(m) + p
  BY <1>1, <1>2, <1>5, <1>7
<1>9. Len(PadTo(m)) = Len(m) + ((BlockLen - (Len(m) % BlockLen)) % BlockLen)
  BY <1>8 DEF p
<1>10. PadTo(m) \in Seq(S)
  BY <1>5, <1>7
<1>11. \A i \in 1 .. Len(m) : PadTo(m)[i] = m[i]
  BY <1>6, <1>7
<1> QED BY <1>8, <1>9, <1>10, <1>11

\* Where the parts of what is authenticated are.
LaidOut(L, n, a, c) ==
  /\ n \in Nat /\ n >= Len(a) /\ Len(L) \in Nat
  /\ \A i \in 1 .. Len(a) : L[i] = a[i]
  /\ \A i \in 1 .. Len(c) : L[n + i] = c[i]
  /\ L[Len(L)] = {<<"ct_len", Len(c), BlockLen - BlockLen \div 2>>}
  /\ L[Len(L) - BlockLen + 1] = {<<"ad_len", Len(a), 1>>}

LEMMA LayoutHolds ==
  ASSUME NEW S, ZeroByte \in S, NEW a \in Seq(S), NEW c \in Seq(S),
         Lens(Len(a), Len(c)) \in Seq(S)
  PROVE  LaidOut(Layout(a, c), Len(PadTo(a)), a, c)
<1> DEFINE P == PadTo(a)
           Q == PadTo(c)
           l == Lens(Len(a), Len(c))
           m == P \o Q
<1>1. /\ P \in Seq(S) /\ Len(P) \in Nat /\ Len(P) >= Len(a) /\ \A i \in 1 .. Len(a) : P[i] = a[i]
      /\ Q \in Seq(S) /\ Len(Q) \in Nat /\ Len(Q) >= Len(c) /\ \A i \in 1 .. Len(c) : Q[i] = c[i]
  BY PadHolds
<1>2. BlockLen \in Nat /\ BlockLen > 1 /\ Len(a) \in Nat /\ Len(c) \in Nat
  BY Block, LenProperties
<1>3. BlockLen \div 2 \in 1 .. BlockLen - 1
  BY <1>2, Z3
<1>4. /\ Len(l) = BlockLen /\ l[1] = {<<"ad_len", Len(a), 1>>}
      /\ l[BlockLen] = {<<"ct_len", Len(c), BlockLen - BlockLen \div 2>>}
  <2> DEFINE h == BlockLen \div 2
  <2>1. h \in 1 .. BlockLen - 1
    BY <1>3
  <2>2. l = [i \in 1 .. BlockLen |-> IF i <= h THEN {<<"ad_len", Len(a), i>>}
                                    ELSE {<<"ct_len", Len(c), i - h>>}]
    BY DEF Lens
  <2> HIDE DEF h, l
  <2>3. 1 \in 1 .. BlockLen /\ 1 <= h /\ BlockLen \in 1 .. BlockLen /\ ~(BlockLen <= h)
    BY <1>2, <2>1
  <2>4. Len(l) = BlockLen /\ l[1] = {<<"ad_len", Len(a), 1>>}
        /\ l[BlockLen] = {<<"ct_len", Len(c), BlockLen - h>>}
    BY <1>2, <2>2, <2>3
  <2> QED BY <2>4 DEF h
<1>5. Layout(a, c) = m \o l
  BY DEF Layout
<1> HIDE DEF P, Q, l
<1>6. /\ m \in Seq(S) /\ Len(m) = Len(P) + Len(Q)
      /\ \A i \in 1 .. Len(P) + Len(Q) : m[i] = IF i <= Len(P) THEN P[i] ELSE Q[i - Len(P)]
  BY <1>1, ConcatProperties
<1>7. l \in Seq(S)
  BY DEF l
<1> HIDE DEF m
<1> DEFINE L == m \o l
<1>8. /\ Len(L) = Len(m) + BlockLen
      /\ \A i \in 1 .. Len(m) + BlockLen : L[i] = IF i <= Len(m) THEN m[i] ELSE l[i - Len(m)]
  <2>1. m \in Seq(S) /\ l \in Seq(S)
    BY <1>6, <1>7
  <2>2. /\ Len(m \o l) = Len(m) + Len(l)
        /\ \A i \in 1 .. Len(m) + Len(l) : (m \o l)[i] = IF i <= Len(m) THEN m[i] ELSE l[i - Len(m)]
    BY <2>1, ConcatProperties
  <2> QED BY <2>2, <1>4
<1> HIDE DEF L
<1>9. \A i \in 1 .. Len(a) : L[i] = a[i]
  <2> SUFFICES ASSUME NEW i \in 1 .. Len(a) PROVE L[i] = a[i]
    OBVIOUS
  <2>1. i <= Len(P) /\ i \in 1 .. Len(P) + Len(Q)
    BY <1>1, <1>2
  <2>2. m[i] = P[i]
    BY <2>1, <1>6
  <2>3. i <= Len(m) /\ i \in 1 .. Len(m) + BlockLen
    <3>1. Len(m) = Len(P) + Len(Q)
      BY <1>6
    <3> QED BY <2>1, <3>1, <1>1, <1>2
  <2>4. L[i] = m[i]
    BY <2>3, <1>8
  <2> QED BY <2>2, <2>4, <1>1
<1>10. \A i \in 1 .. Len(c) : L[Len(P) + i] = c[i]
  <2> SUFFICES ASSUME NEW i \in 1 .. Len(c) PROVE L[Len(P) + i] = c[i]
    OBVIOUS
  <2>1. Len(P) + i \in 1 .. Len(P) + Len(Q) /\ ~(Len(P) + i <= Len(P)) /\ (Len(P) + i) - Len(P) = i
    BY <1>1, <1>2
  <2>2. m[Len(P) + i] = Q[i]
    BY <2>1, <1>6
  <2>3. Len(P) + i <= Len(m) /\ Len(P) + i \in 1 .. Len(m) + BlockLen
    <3>1. Len(m) = Len(P) + Len(Q)
      BY <1>6
    <3> QED BY <2>1, <3>1, <1>1, <1>2
  <2>4. L[Len(P) + i] = m[Len(P) + i]
    BY <2>3, <1>8
  <2> QED BY <2>2, <2>4, <1>1
<1>11. L[Len(L)] = l[BlockLen] /\ L[Len(L) - BlockLen + 1] = l[1]
  <2>1. Len(m) \in Nat
    BY <1>1, <1>6
  <2>2. Len(m) + BlockLen \in 1 .. Len(m) + BlockLen /\ ~(Len(m) + BlockLen <= Len(m))
        /\ (Len(m) + BlockLen) - Len(m) = BlockLen
    BY <2>1, <1>2
  <2>3. Len(m) + 1 \in 1 .. Len(m) + BlockLen /\ ~(Len(m) + 1 <= Len(m)) /\ (Len(m) + 1) - Len(m) = 1
    BY <2>1, <1>2
  <2>4. Len(L) = Len(m) + BlockLen /\ Len(L) - BlockLen + 1 = Len(m) + 1
    <3>1. Len(L) = Len(m) + BlockLen
      BY <1>8
    <3> QED BY <3>1, <2>1, <1>2
  <2>5. L[Len(m) + BlockLen] = l[BlockLen]
    BY <2>2, <1>8
  <2>6. L[Len(m) + 1] = l[1]
    BY <2>3, <1>8
  <2> QED BY <2>4, <2>5, <2>6
<1>12. Layout(a, c) = L
  BY <1>5 DEF L
<1>13. Len(L) \in Nat
  <2>1. Len(L) = (Len(P) + Len(Q)) + BlockLen
    BY <1>6, <1>8
  <2> QED BY <2>1, <1>1, <1>2
<1>14. LaidOut(L, Len(P), a, c)
  BY <1>1, <1>4, <1>9, <1>10, <1>11, <1>13 DEF LaidOut
<1> QED BY <1>12, <1>14 DEF P

\* So what is authenticated tells the associated data and the ciphertext apart, and where
\* one ends and the other begins.
LEMMA LayoutTells ==
  ASSUME NEW S, ZeroByte \in S,
         NEW a \in Seq(S), NEW b \in Seq(S), NEW c \in Seq(S), NEW d \in Seq(S),
         Lens(Len(a), Len(c)) \in Seq(S), Lens(Len(b), Len(d)) \in Seq(S),
         Layout(a, c) = Layout(b, d)
  PROVE  a = b /\ c = d
<1> DEFINE n == Len(PadTo(a))
           k == Len(PadTo(b))
           L == Layout(a, c)
<1>1. LaidOut(L, n, a, c)
  BY LayoutHolds
<1>2. LaidOut(L, k, b, d)
  <2>1. LaidOut(Layout(b, d), Len(PadTo(b)), b, d)
    BY LayoutHolds
  <2> QED BY <2>1
<1>3. Len(a) = Len(b) => n = k
  BY PadHolds
<1> HIDE DEF n, k, L
<1>4. /\ {<<"ct_len", Len(c), BlockLen - BlockLen \div 2>>} = {<<"ct_len", Len(d), BlockLen - BlockLen \div 2>>}
      /\ {<<"ad_len", Len(a), 1>>} = {<<"ad_len", Len(b), 1>>}
  BY <1>1, <1>2 DEF LaidOut
<1>5. Len(c) = Len(d) /\ Len(a) = Len(b)
  <2>1. /\ <<"ct_len", Len(c), BlockLen - BlockLen \div 2>> = <<"ct_len", Len(d), BlockLen - BlockLen \div 2>>
        /\ <<"ad_len", Len(a), 1>> = <<"ad_len", Len(b), 1>>
    BY <1>4, Zenon
  <2> QED BY <2>1
<1>6. n = k
  BY <1>5, <1>3
<1>7. \A i \in 1 .. Len(a) : a[i] = b[i]
  BY <1>1, <1>2, <1>5 DEF LaidOut
<1>8. \A i \in 1 .. Len(c) : c[i] = d[i]
  BY <1>1, <1>2, <1>5, <1>6 DEF LaidOut
<1> QED BY <1>5, <1>7, <1>8, SeqEqual
\* The bytes a call encrypts or decrypts, which it reads where the caller put them or, in
\* place, overwrites.
Source == IF inplace THEN before ELSE mem["in"]

\* How far it has got.
Done ==
  CASE pc = "fused"                 -> crypted
    [] pc \in {"seal_tag", "verify"} -> len
    [] OTHER                        -> 0

\* Up to there the keystream has been added to the source, once; the rest is as it was.
Halfway ==
  pc # "returned" =>
    \A i \in Offset :
      mem[dst][i] = IF i < Done THEN Xor(Source[i], {<<"keystream", nonce, i>>}) ELSE before[i]

\* Seal is given the plaintext.
Origin ==
  call = "seal" => nonce = 1 /\ (pc # "returned" => \A i \in Offset : Source[i] = {<<"plain", i>>})

CipherByte(i) == {<<"plain", i>>, <<"keystream", 1, i>>}

Cipher(n) == [i \in 1 .. n |-> CipherByte(i - 1)]

SealedTag(i) == {<<"tag", 1, Layout(sealed.ad, Cipher(sealed.len)), i>>}

IsBytes(m, n) == m = [i \in 1 .. n |-> m[i]]

\* What it returns is the plaintext under the keystream, and the tag of that.
SealedAs ==
  call = "open" \/ (pc = "returned" /\ result = 1) =>
    /\ sealed.len \in Nat /\ Len(sealed.record) = sealed.len + TagLen
    /\ IsBytes(sealed.record, sealed.len + TagLen)
    /\ \A i \in 1 .. sealed.len : sealed.record[i] = CipherByte(i - 1)
    /\ \A i \in 1 .. TagLen : sealed.record[sealed.len + i] = SealedTag(i)

\* The record with its byte at c, if any, changed: the first n bytes of it are at the source.
Arrives(n, c) ==
  \A i \in 1 .. n :
    Source[i - 1] = IF i = c THEN Xor(sealed.record[i], {<<"flip", i>>}) ELSE sealed.record[i]

\* Open is given that record, or one that differs in one of four ways.
Delivered ==
  call = "open" /\ pc # "returned" =>
    LET n == IF pc = "start" THEN len ELSE len + TagLen
        all == Len(sealed.record)
    IN IF intact
       THEN n = all /\ Arrives(n, 0) /\ nonce = 1 /\ ad = sealed.ad
       ELSE \/ n \in 0 .. all - 1 /\ Arrives(n, 0)
            \/ n = all /\ ad = sealed.ad /\ \E c \in 1 .. all : Arrives(n, c)
            \/ n = all /\ Arrives(n, 0) /\ nonce = 2
            \/ n = all /\ Arrives(n, 0) /\ ad # sealed.ad

\* From one end to the other: with TagInv this says what open compares and returns.
CarryInv == Halfway /\ Origin /\ SealedAs /\ Delivered

-----------------------------------------------------------------------------
\* The parts of a byte.
LEMMA Atoms ==
  ASSUME NEW i, NEW j, NEW n, NEW m, NEW x
  PROVE  /\ <<"plain", i>> # <<"keystream", n, j>>
         /\ <<"flip", j>> # <<"plain", i>>
         /\ <<"flip", j>> # <<"keystream", n, i>>
         /\ <<"flip", j>> # <<"tag", n, x, i>>
         /\ <<"plain", j>> # <<"tag", n, x, i>>
         /\ <<"keystream", n, j>> # <<"tag", m, x, i>>
<1>1. /\ <<"plain", i>>[1] = "plain" /\ <<"plain", j>>[1] = "plain"
      /\ <<"keystream", n, j>>[1] = "keystream" /\ <<"keystream", n, i>>[1] = "keystream"
      /\ <<"flip", j>>[1] = "flip"
      /\ <<"tag", n, x, i>>[1] = "tag" /\ <<"tag", m, x, i>>[1] = "tag"
  OBVIOUS
<1> QED BY <1>1

\* Adding a keystream byte and adding it again; a change changes; no difference.
LEMMA XorTwice ==
  ASSUME NEW p, NEW k, p # k PROVE Xor({p}, {k}) = {p, k} /\ Xor({p, k}, {k}) = {p}
  BY DEF Xor

LEMMA XorChanges == ASSUME NEW a, NEW f, f \notin a PROVE Xor(a, {f}) # a
  BY DEF Xor

LEMMA XorNothing == ASSUME NEW a, NEW b PROVE Xor(a, b) = {} <=> a = b
  BY DEF Xor

\* ct_eq16 compares every byte.
LEMMA CtEqAll ==
  ASSUME NEW a, NEW b PROVE CtEq(a, b) <=> \A i \in 1 .. TagLen : a[i] = b[i]
  BY XorNothing, SMTT(30) DEF CtEq

\* LayoutTells, for the bytes there are.
LEMMA LayoutsTell ==
  ASSUME NEW a \in Seq(AdByte), NEW b \in Seq(AdByte), NEW n \in Nat, NEW k \in Nat,
         NEW f, NEW g,
         Layout(a, Bytes(f, 0, n)) = Layout(b, Bytes(g, 0, k))
  PROVE  a = b /\ Bytes(f, 0, n) = Bytes(g, 0, k)
<1> DEFINE c == Bytes(f, 0, n)
           d == Bytes(g, 0, k)
           C == {f[i] : i \in 0 .. n - 1} \cup {g[i] : i \in 0 .. k - 1}
           u == Lens(Len(a), Len(c))
           v == Lens(Len(b), Len(d))
           L == {u[i] : i \in 1 .. BlockLen} \cup {v[i] : i \in 1 .. BlockLen}
           S == AdByte \cup C \cup L \cup {ZeroByte}
<1>1. c \in Seq(C)
  <2>1. \A i \in 0 .. 0 + n - 1 : f[i] \in C
    OBVIOUS
  <2> QED BY <2>1, BytesType
<1>2. d \in Seq(C)
  <2>1. \A i \in 0 .. 0 + k - 1 : g[i] \in C
    OBVIOUS
  <2> QED BY <2>1, BytesType
<1>3. u \in Seq(L)
  <2>1. u \in [1 .. BlockLen -> L]
    <3>1. u = [i \in 1 .. BlockLen |-> u[i]]
      BY DEF Lens
    <3> HIDE DEF u
    <3> QED BY <3>1
  <2> QED BY <2>1, SeqDef, Block
<1>4. v \in Seq(L)
  <2>1. v \in [1 .. BlockLen -> L]
    <3>1. v = [i \in 1 .. BlockLen |-> v[i]]
      BY DEF Lens
    <3> HIDE DEF v
    <3> QED BY <3>1
  <2> QED BY <2>1, SeqDef, Block, SMTT(30)
<1>5. AdByte \subseteq S /\ C \subseteq S /\ L \subseteq S /\ ZeroByte \in S
  OBVIOUS
<1>6. Layout(a, c) = Layout(b, d)
  OBVIOUS
<1> HIDE DEF S, C, L, c, d, u, v
<1>7. a \in Seq(S) /\ b \in Seq(S) /\ c \in Seq(S) /\ d \in Seq(S) /\ u \in Seq(S) /\ v \in Seq(S)
  BY <1>1, <1>2, <1>3, <1>4, <1>5, SeqMonotonic
<1>8. Lens(Len(a), Len(c)) \in Seq(S) /\ Lens(Len(b), Len(d)) \in Seq(S)
  BY <1>7 DEF u, v
<1>9. a = b /\ c = d
  BY <1>5, <1>7, <1>8, <1>6, LayoutTells, SMTT(30)
<1> QED BY <1>9 DEF c, d

-----------------------------------------------------------------------------
LEMMA InitCarry == Init => CarryInv
<1> SUFFICES ASSUME Init PROVE CarryInv
  OBVIOUS
<1>1. pc = "start" /\ call = "seal" /\ nonce = 1 /\ crypted = 0 /\ inplace \in BOOLEAN
      /\ mem["in"] = [i \in Offset |-> {<<"plain", i>>}] /\ before = mem[dst]
  BY DEF Init
<1>2. Source = [i \in Offset |-> {<<"plain", i>>}]
  BY <1>1 DEF Source, dst
<1>3. \A i \in Offset : ~(i < 0)
  BY Sizes DEF Offset
<1>4. Halfway
  BY <1>1, <1>3 DEF Halfway, Done
<1> QED BY <1>1, <1>2, <1>4 DEF CarryInv, Origin, SealedAs, Delivered

\* A call that returns says nothing more of the record it was given.
LEMMA ReturnCarries ==
  ASSUME CarryInv, pc' = "returned", UNCHANGED <<call, nonce, sealed>>, call \in {"seal", "open"},
         call = "seal" => result' = 0
  PROVE  CarryInv'
<1>1. SealedAs'
  <2>1. \A i : SealedTag(i)' = SealedTag(i)
    BY DEF SealedTag
  <2>2. SealedAs /\ sealed' = sealed /\ call' = call
    BY DEF CarryInv
  <2>3. CASE call = "open"
    BY <2>1, <2>2, <2>3 DEF SealedAs
  <2>4. CASE call # "open"
    BY <2>2, <2>4 DEF SealedAs
  <2> QED BY <2>3, <2>4
<1> QED BY <1>1 DEF CarryInv, Halfway, Origin, Delivered

\* A step inside a call that gets no further with the cipher.
LEMMA InsideCarries ==
  ASSUME CarryInv, pc \in {"fused"} \cup Sealing \cup Opening,
         pc' \in {"fused"} \cup Sealing \cup Opening, Source' = Source, Halfway',
         UNCHANGED <<args, sealed, intact>>
  PROVE  CarryInv'
<1>1. /\ call' = call /\ nonce' = nonce /\ len' = len /\ ad' = ad /\ sealed' = sealed
      /\ intact' = intact /\ inplace' = inplace
  BY DEF args
<1>2. pc # "returned" /\ pc # "start" /\ pc' # "returned" /\ pc' # "start"
  BY DEF Sealing, Opening
<1>3. Origin'
  BY <1>1, <1>2 DEF CarryInv, Origin
<1>4. SealedAs'
  <2>1. \A i : SealedTag(i)' = SealedTag(i)
    BY <1>1 DEF SealedTag
  <2> QED BY <2>1, <1>1, <1>2 DEF CarryInv, SealedAs
<1>5. Delivered'
  <2>1. \A n, c : Arrives(n, c)' = Arrives(n, c)
    BY <1>1 DEF Arrives
  <2> QED BY <2>1, <1>1, <1>2 DEF CarryInv, Delivered
<1> QED BY <1>3, <1>4, <1>5 DEF CarryInv

\* Encrypting, decrypting: the next bytes of the source, not yet overwritten.
LEMMA CryptCarries ==
  ASSUME CarryInv, Shape, pc \in {"fused"} \cup Sealing \cup Opening, UNCHANGED <<args, before>>,
         Done \in Nat, NEW to \in Nat, Done <= to, mem' = Crypted(Done, to), Done' = to
  PROVE  Source' = Source /\ Halfway'
<1>1. dst' = dst /\ inplace' = inplace /\ before' = before /\ nonce' = nonce /\ inplace \in BOOLEAN
  BY DEF args, dst, Shape
<1>2. mem'[dst] = [i \in Offset |->
                     IF i \in Done .. to - 1
                     THEN Xor(mem["in"][i], {<<"keystream", nonce, i>>}) ELSE mem[dst][i]]
  BY DstIsBuffer DEF Crypted, Shape
<1>3. ASSUME ~inplace PROVE mem'["in"] = mem["in"]
  BY <1>3 DEF Crypted, dst, Shape, Buffer
<1>4. Source' = Source
  BY <1>1, <1>3 DEF Source
<1>5. pc # "returned"
  BY DEF Sealing, Opening
<1>6. SUFFICES ASSUME NEW i \in Offset
               PROVE  mem'[dst][i] = IF i < to THEN Xor(Source[i], {<<"keystream", nonce, i>>})
                                               ELSE before[i]
  BY <1>1, <1>4 DEF Halfway
<1>7. i \in Nat
  BY Sizes DEF Offset
<1>8. mem[dst][i] = IF i < Done THEN Xor(Source[i], {<<"keystream", nonce, i>>}) ELSE before[i]
  BY <1>5 DEF CarryInv, Halfway
<1> DEFINE k == {<<"keystream", nonce, i>>}
           done == Done
<1>9. done \in Nat
  OBVIOUS
<1>10. CASE i \in done .. to - 1
  <2>1. mem["in"][i] = Source[i]
    <3>1. CASE inplace
      <4>1. mem["in"][i] = before[i]
        BY <1>7, <1>8, <1>10, <3>1 DEF dst
      <4> QED BY <4>1, <3>1 DEF Source
    <3>2. CASE ~inplace
      BY <3>2 DEF Source
    <3> QED BY <3>1, <3>2
  <2> HIDE DEF k, done
  <2>2. mem'[dst][i] = Xor(mem["in"][i], k)
    BY <1>2, <1>10 DEF k, done
  <2> QED BY <2>1, <2>2, <1>7, <1>9, <1>10 DEF k
<1>11. CASE ~(i \in done .. to - 1)
  <2>1. mem'[dst][i] = mem[dst][i]
    BY <1>2, <1>11
  <2>2. (i < to) <=> (i < done)
    <3> HIDE DEF done
    <3>1. done <= to
      BY DEF done
    <3> QED BY <3>1, <1>7, <1>9, <1>11
  <2> QED BY <2>1, <2>2, <1>8 DEF done
<1> QED BY <1>10, <1>11

LEMMA RejectCarries ==
  ASSUME CarryInv, Shape, pc = "start", Reject
  PROVE  CarryInv'
<1>1. pc' = "returned" /\ result' = 0 /\ UNCHANGED <<call, nonce, sealed>>
  BY DEF Reject, Setting
<1> QED BY <1>1, ReturnCarries DEF Shape

LEMMA BeginCarries ==
  ASSUME CarryInv, Shape, crypted = 0, pc = "start",
         NEW n, NEW space, NEW portable, Begin(n, space, portable),
         portable \in {"seal_crypt", "open_tag"},
         call = "open" => n + TagLen = len
  PROVE  CarryInv'
<1>1. /\ UNCHANGED <<call, inplace, nonce, ad, mem, before, crypted, sealed, intact>>
      /\ len' = n /\ pc' \in {"fused", portable}
  BY DEF Begin, Setting
<1>2. dst' = dst /\ Source' = Source
  BY <1>1 DEF dst, Source
<1>3. Done = 0 /\ Done' = 0
  BY <1>1 DEF Done
<1>4. Halfway'
  BY <1>1, <1>2, <1>3 DEF CarryInv, Halfway
<1>5. Origin'
  BY <1>1, <1>2 DEF CarryInv, Origin
<1>6. SealedAs'
  <2>1. \A i : SealedTag(i)' = SealedTag(i)
    BY <1>1 DEF SealedTag
  <2>2. CASE call = "open"
    BY <2>1, <2>2, <1>1 DEF CarryInv, SealedAs
  <2>3. CASE call # "open"
    BY <2>3, <1>1 DEF Shape, SealedAs
  <2> QED BY <2>2, <2>3
<1>7. Delivered'
  <2>1. \A k, c : Arrives(k, c)' = Arrives(k, c)
    BY <1>1, <1>2 DEF Arrives
  <2>2. pc' # "start" /\ pc' # "returned"
    BY <1>1
  <2> QED BY <2>1, <2>2, <1>1 DEF CarryInv, Delivered
<1> QED BY <1>4, <1>5, <1>6, <1>7 DEF CarryInv

LEMMA SealCallCarries == IInv /\ TagInv /\ CarryInv /\ SealCall => CarryInv'
<1> SUFFICES ASSUME IInv, TagInv, CarryInv, SealCall PROVE CarryInv'
  OBVIOUS
<1>1. pc = "start" /\ call = "seal" /\ Shape /\ crypted = 0
  BY DEF SealCall, IInv, TagInv, Order
<1>2. ASSUME NEW n, NEW max, NEW extra, NEW space, SealScatter(n, max, extra, space)
      PROVE  CarryInv'
  <2>1. CASE extra # 0 \/ max < TagLen
    BY <2>1, <1>1, <1>2, RejectCarries DEF SealScatter
  <2>2. CASE ~(extra # 0 \/ max < TagLen)
    <3>1. Begin(n, space, "seal_crypt")
      BY <2>2, <1>2 DEF SealScatter
    <3> QED BY <3>1, <1>1, BeginCarries
  <2> QED BY <2>1, <2>2
<1>3. ASSUME NEW n, NEW max, Seal(n, max)
      PROVE  CarryInv'
  <2>1. Reject \/ SealScatter(n, (max - n) % SizeSpace, 0, max)
    BY <1>3 DEF Seal
  <2> QED BY <2>1, <1>1, <1>2, RejectCarries
<1> QED BY <1>2, <1>3 DEF SealCall

LEMMA OpenCallCarries == IInv /\ TagInv /\ CarryInv /\ OpenCall => CarryInv'
<1> SUFFICES ASSUME IInv, TagInv, CarryInv, OpenCall PROVE CarryInv'
  OBVIOUS
<1>1. pc = "start" /\ call = "open" /\ Shape /\ crypted = 0 /\ len \in Nat
  BY DEF OpenCall, IInv, TagInv, Order, Shape
<1>2. ASSUME NEW n, NEW l, NEW space, OpenGather(n, l, space), l = TagLen => n + TagLen = len
      PROVE  CarryInv'
  <2>1. CASE l # TagLen
    BY <2>1, <1>1, <1>2, RejectCarries DEF OpenGather
  <2>2. CASE l = TagLen
    <3>1. Begin(n, space, "open_tag")
      BY <2>2, <1>2 DEF OpenGather
    <3> QED BY <3>1, <2>2, <1>1, <1>2, BeginCarries
  <2> QED BY <2>1, <2>2
<1>3. ASSUME NEW max, Open(len, max)
      PROVE  CarryInv'
  <2>1. Reject \/ OpenGather(len - TagLen, TagLen, max)
    BY <1>3 DEF Open
  <2>2. (len - TagLen) + TagLen = len
    BY <1>1, Sizes
  <2> QED BY <2>1, <2>2, <1>1, <1>2, RejectCarries
<1>4. ASSUME NEW n \in 0 .. len, OpenGather(n, len - n, n)
      PROVE  CarryInv'
  <2>1. len - n = TagLen => n + TagLen = len
    BY <1>1, Sizes
  <2> QED BY <2>1, <1>2, <1>4
<1> QED BY <1>3, <1>4 DEF OpenCall

LEMMA SealCryptCarries == IInv /\ CarryInv /\ SealCrypt => CarryInv'
<1> SUFFICES ASSUME IInv, CarryInv, SealCrypt PROVE CarryInv'
  OBVIOUS
<1>1. /\ pc = "seal_crypt" /\ pc' = "seal_tag" /\ mem' = Crypted(0, len)
      /\ UNCHANGED <<args, before, sealed, intact>> /\ Shape /\ len \in Nat /\ len' = len
  BY DEF SealCrypt, IInv, Shape, args
<1>2. Done = 0 /\ Done' = len
  BY <1>1 DEF Done
<1>3. pc \in {"fused"} \cup Sealing \cup Opening /\ pc' \in {"fused"} \cup Sealing \cup Opening
  BY <1>1 DEF Sealing
<1>4. Source' = Source /\ Halfway'
  BY <1>1, <1>2, <1>3, CryptCarries
<1> QED BY <1>1, <1>3, <1>4, InsideCarries

LEMMA OpenCryptCarries == IInv /\ CarryInv /\ OpenCrypt => CarryInv'
<1> SUFFICES ASSUME IInv, CarryInv, OpenCrypt PROVE CarryInv'
  OBVIOUS
<1>1. /\ pc = "open_crypt" /\ pc' = "verify" /\ mem' = Crypted(0, len)
      /\ UNCHANGED <<args, before, sealed, intact>> /\ Shape /\ len \in Nat /\ len' = len
  BY DEF OpenCrypt, IInv, Shape, args
<1>2. Done = 0 /\ Done' = len
  BY <1>1 DEF Done
<1>3. pc \in {"fused"} \cup Sealing \cup Opening /\ pc' \in {"fused"} \cup Sealing \cup Opening
  BY <1>1 DEF Opening
<1>4. Source' = Source /\ Halfway'
  BY <1>1, <1>2, <1>3, CryptCarries
<1> QED BY <1>1, <1>3, <1>4, InsideCarries

LEMMA FusedCryptCarries == IInv /\ CarryInv /\ FusedCrypt => CarryInv'
<1> SUFFICES ASSUME IInv, CarryInv, FusedCrypt PROVE CarryInv'
  OBVIOUS
<1>1. /\ pc = "fused" /\ pc' = "fused" /\ UNCHANGED <<args, before, sealed, intact>>
      /\ Shape /\ len \in Nat /\ crypted \in Nat
  BY DEF FusedCrypt, IInv, Shape
<1>2. PICK to \in crypted + 1 .. len : mem' = Crypted(crypted, to) /\ crypted' = to
  BY DEF FusedCrypt
<1>3. Done = crypted /\ Done' = to /\ to \in Nat /\ crypted <= to
  BY <1>1, <1>2 DEF Done
<1>4. pc \in {"fused"} \cup Sealing \cup Opening /\ pc' \in {"fused"} \cup Sealing \cup Opening
  BY <1>1
<1>5. Source' = Source /\ Halfway'
  BY <1>1, <1>2, <1>3, <1>4, CryptCarries
<1> QED BY <1>1, <1>4, <1>5, InsideCarries

\* Only the authenticator goes on.
LEMMA TagCarries ==
  ASSUME CarryInv, UNCHANGED <<args, mem, before, sealed, intact>>, Done' = Done,
         pc \in {"fused"} \cup Sealing \cup Opening,
         pc' \in {"fused"} \cup Sealing \cup Opening
  PROVE  CarryInv'
<1>1. Source' = Source /\ dst' = dst /\ nonce' = nonce /\ mem' = mem /\ before' = before
  BY DEF Source, dst, args
<1>2. pc # "returned"
  BY DEF Sealing, Opening
<1>3. Halfway'
  BY <1>1, <1>2 DEF CarryInv, Halfway
<1> QED BY <1>1, <1>3, InsideCarries

LEMMA OpenTagCarries == CarryInv /\ OpenTag => CarryInv'
<1> SUFFICES ASSUME CarryInv, OpenTag PROVE CarryInv'
  OBVIOUS
<1>1. /\ pc = "open_tag" /\ pc' = "open_crypt"
      /\ UNCHANGED <<args, mem, before, sealed, intact>>
  BY DEF OpenTag
<1>2. Done' = Done
  BY <1>1 DEF Done
<1> QED BY <1>1, <1>2, TagCarries DEF Opening

LEMMA FusedAuthenticateCarries == CarryInv /\ FusedAuthenticate => CarryInv'
<1> SUFFICES ASSUME CarryInv, FusedAuthenticate PROVE CarryInv'
  OBVIOUS
<1>1. /\ pc = "fused" /\ pc' = "fused" /\ crypted' = crypted
      /\ UNCHANGED <<args, mem, before, sealed, intact>>
  BY DEF FusedAuthenticate
<1>2. Done' = Done
  BY <1>1 DEF Done
<1> QED BY <1>1, <1>2, TagCarries

\* What seal returns.
LEMMA SealReturnCarries ==
  ASSUME IInv, TagInv, CarryInv, TagInv', call = "seal", pc \in {"fused"} \cup Sealing,
         Done = len, NEW t, Len(t) = TagLen, SealReturn(t), UNCHANGED <<args, before>>
  PROVE  CarryInv'
<1>1. dst' = dst /\ len' = len /\ call' = call /\ ad' = ad /\ nonce' = nonce
  BY DEF args, dst
<1>2. len \in Nat /\ len + TagLen <= SizeSpace /\ DOMAIN mem = Buffer
  BY DEF IInv, Shape, TagInv, Fits, Inside
<1>3. /\ mem' = [mem EXCEPT ![dst] = Put(@, len, t)] /\ pc' = "returned" /\ result' = 1
      /\ sealed' = [len |-> len, ad |-> ad, record |-> Bytes(mem'[dst], 0, len + TagLen)]
  BY DEF SealReturn
<1>4. sealed'.len = len /\ sealed'.ad = ad /\ sealed'.record = Bytes(mem'[dst], 0, len + TagLen)
  BY <1>3
<1>5. mem'[dst] = Put(mem[dst], len, t)
  BY <1>2, <1>3, DstIsBuffer
<1>6. nonce = 1 /\ pc # "returned"
  BY DEF CarryInv, Origin, Sealing
<1>7. ASSUME NEW i \in 0 .. len - 1 PROVE mem'[dst][i] = CipherByte(i)
  <2>1. i \in Offset /\ ~(i \in len .. len + TagLen - 1) /\ i < len /\ i \in Int
    BY <1>2, Sizes DEF Offset
  <2>2. mem'[dst][i] = mem[dst][i]
    BY <1>5, <2>1 DEF Put
  <2>3. mem[dst][i] = Xor(Source[i], {<<"keystream", 1, i>>}) /\ Source[i] = {<<"plain", i>>}
    BY <1>6, <2>1 DEF CarryInv, Halfway, Origin
  <2>4. <<"plain", i>> # <<"keystream", 1, i>>
    BY Atoms
  <2>5. Xor({<<"plain", i>>}, {<<"keystream", 1, i>>}) = CipherByte(i)
    BY <2>4, XorTwice DEF CipherByte
  <2> QED BY <2>2, <2>3, <2>5
<1>8. Bytes(mem'[dst], 0, len) = Cipher(len)
  <2>1. \A i \in 1 .. len : mem'[dst][0 + i - 1] = CipherByte(i - 1)
    BY <1>2, <1>7
  <2> QED BY <2>1 DEF Bytes, Cipher
<1>9. Bytes(mem'[dst], len, TagLen) = [i \in 1 .. TagLen |-> {<<"tag", 1, Layout(ad, Cipher(len)), i>>}]
  <2>1. Bytes(mem[dst], len, TagLen)' = TagOf(Layout(ad, Bytes(mem[dst], 0, len)))'
    BY <1>1, <1>3 DEF TagInv, TagCoversRecord
  <2>2. Layout(ad, Bytes(mem[dst], 0, len))' = Layout(ad, Cipher(len))
    BY <1>1, <1>8
  <2>3. TagOf(Layout(ad, Bytes(mem[dst], 0, len)))' =
          [i \in 1 .. TagLen |-> {<<"tag", 1, Layout(ad, Cipher(len)), i>>}]
    BY <2>2, <1>1, <1>6 DEF TagOf
  <2> QED BY <2>1, <2>3, <1>1
<1>10. /\ Len(sealed'.record) = len + TagLen /\ IsBytes(sealed'.record, len + TagLen)
       /\ \A i \in 1 .. len + TagLen : sealed'.record[i] = mem'[dst][i - 1]
  <2> DEFINE n == len + TagLen
             b == mem'[dst]
  <2>1. n \in Nat
    BY <1>2, Sizes
  <2>2. sealed'.record = [i \in 1 .. n |-> b[i - 1]]
    <3>1. Bytes(b, 0, n) = [i \in 1 .. n |-> b[0 + i - 1]]
      BY DEF Bytes
    <3>2. \A i \in 1 .. n : 0 + i - 1 = i - 1
      BY <2>1
    <3> QED BY <3>1, <3>2, <1>4
  <2> HIDE DEF n, b
  <2>3. Len(sealed'.record) = n
    BY <2>1, <2>2
  <2>4. IsBytes(sealed'.record, n)
    BY <2>2 DEF IsBytes
  <2>5. \A i \in 1 .. n : sealed'.record[i] = b[i - 1]
    BY <2>2
  <2> QED BY <2>3, <2>4, <2>5 DEF n, b
<1>11. \A i \in 1 .. len : sealed'.record[i] = CipherByte(i - 1)
  <2> SUFFICES ASSUME NEW i \in 1 .. len PROVE sealed'.record[i] = CipherByte(i - 1)
    OBVIOUS
  <2>1. i - 1 \in 0 .. len - 1 /\ i \in 1 .. len + TagLen
    BY <1>2, Sizes
  <2> QED BY <2>1, <1>7, <1>10
<1>12. ASSUME NEW i \in 1 .. TagLen
       PROVE  sealed'.record[len + i] = SealedTag(i)'
  <2>1. sealed'.record[len + i] = mem'[dst][len + i - 1]
    <3> DEFINE j == len + i
    <3>1. j \in 1 .. len + TagLen
      BY <1>2, Sizes
    <3> HIDE DEF j
    <3>2. sealed'.record[j] = mem'[dst][j - 1]
      BY <3>1, <1>10
    <3>3. j = len + i /\ j - 1 = len + i - 1
      BY <1>2, Sizes DEF j
    <3> QED BY <3>2, <3>3
  <2>2. mem'[dst][len + i - 1] = Bytes(mem'[dst], len, TagLen)[i]
    BY DEF Bytes
  <2>3. SealedTag(i)' = {<<"tag", 1, Layout(ad, Cipher(len)), i>>}
    BY <1>4 DEF SealedTag
  <2> QED BY <2>1, <2>2, <2>3, <1>9
<1>13. SealedAs'
  BY <1>2, <1>4, <1>10, <1>11, <1>12 DEF SealedAs
<1>14. Origin'
  BY <1>1, <1>3, <1>6 DEF Origin
<1> QED BY <1>1, <1>3, <1>13, <1>14 DEF CarryInv, Halfway, Delivered

LEMMA SealTagCarries == IInv /\ TagInv /\ CarryInv /\ SealTag /\ TagInv' => CarryInv'
<1> SUFFICES ASSUME IInv, TagInv, CarryInv, SealTag, TagInv' PROVE CarryInv'
  OBVIOUS
<1> DEFINE t == TagPortable(Bytes(mem[dst], 0, len))
<1>1. pc = "seal_tag" /\ UNCHANGED <<args, before>> /\ SealReturn(t) /\ call = "seal"
  BY DEF SealTag, IInv, Shape, Sealing
<1>2. Done = len /\ pc \in Sealing
  BY <1>1 DEF Done, Sealing
<1>3. Len(t) = TagLen
  BY TagLength DEF TagPortable
<1> HIDE DEF t
<1> QED BY <1>1, <1>2, <1>3, SealReturnCarries

LEMMA FusedFinishCarries == IInv /\ TagInv /\ CarryInv /\ FusedFinish /\ TagInv' => CarryInv'
<1> SUFFICES ASSUME IInv, TagInv, CarryInv, FusedFinish, TagInv' PROVE CarryInv'
  OBVIOUS
<1>1. pc = "fused" /\ crypted = len /\ UNCHANGED <<args, before, intact>>
  BY DEF FusedFinish
<1>2. Done = len
  BY <1>1 DEF Done
<1>3. CASE call = "seal"
  <2> DEFINE t == TagFused(hashed')
  <2>1. SealReturn(t)
    BY <1>3 DEF FusedFinish
  <2>2. Len(t) = TagLen
    BY TagLength DEF TagFused
  <2> HIDE DEF t
  <2> QED BY <2>1, <2>2, <1>1, <1>2, <1>3, SealReturnCarries
<1>4. CASE call # "seal"
  <2>1. pc' = "verify" /\ UNCHANGED <<mem, sealed>> /\ len' = len
    BY <1>1, <1>4 DEF FusedFinish, args
  <2>2. Done' = Done
    BY <2>1, <1>2 DEF Done
  <2> QED BY <2>1, <2>2, <1>1, TagCarries DEF Opening
<1> QED BY <1>3, <1>4

LEMMA VerifyCarries == IInv /\ CarryInv /\ Verify => CarryInv'
<1> SUFFICES ASSUME IInv, CarryInv, Verify PROVE CarryInv'
  OBVIOUS
<1>1. pc' = "returned" /\ UNCHANGED <<call, nonce, sealed>> /\ call = "open"
  BY DEF Verify, args, IInv, Shape, Opening
<1> QED BY <1>1, ReturnCarries

LEMMA StutterCarries == CarryInv /\ UNCHANGED vars => CarryInv'
<1> SUFFICES ASSUME CarryInv, UNCHANGED vars PROVE CarryInv'
  OBVIOUS
<1>1. /\ UNCHANGED <<pc, call, len, inplace, nonce, ad, mem, before, crypted, result, sealed, intact>>
  BY DEF vars, args
<1>2. Source' = Source /\ dst' = dst /\ Done' = Done
  BY <1>1 DEF Source, dst, Done
<1>3. (\A i : SealedTag(i)' = SealedTag(i)) /\ \A n, c : Arrives(n, c)' = Arrives(n, c)
  BY <1>1, <1>2 DEF SealedTag, Arrives
<1>4. Halfway' /\ Origin'
  BY <1>1, <1>2 DEF CarryInv, Halfway, Origin
<1>5. SealedAs'
  BY <1>1, <1>3 DEF CarryInv, SealedAs
<1>6. Delivered'
  BY <1>1, <1>3 DEF CarryInv, Delivered
<1> QED BY <1>4, <1>5, <1>6 DEF CarryInv

\* The way between the two ends.
LEMMA DeliverCarries == IInv /\ TagInv /\ CarryInv /\ Deliver => CarryInv'
<1> SUFFICES ASSUME IInv, TagInv, CarryInv, Deliver PROVE CarryInv'
  OBVIOUS
<1> DEFINE R    == sealed.record
           size == Len(R)
           all  == [len |-> size, changed |-> 0, nonce |-> 1, ad |-> sealed.ad]
           wrong == sealed.ad \o AdBytes(1)
           Record(d) == [i \in 1 .. d.len |-> IF i = d.changed THEN Xor(R[i], {<<"flip", i>>}) ELSE R[i]]
<1>1. /\ pc = "returned" /\ call = "seal" /\ result = 1 /\ pc' = "start" /\ call' = "open"
      /\ sealed' = sealed
  BY DEF Deliver
<1>2. PICK d \in Deliveries :
        /\ nonce' = d.nonce /\ ad' = d.ad /\ len' = d.len
        /\ mem' = [in |-> Put(Stale("in"), 0, Record(d)), out |-> Stale("out")]
        /\ intact' = (Record(d) = R /\ d.nonce = 1 /\ d.ad = sealed.ad)
  BY DEF Deliver
<1>3. /\ inplace' \in BOOLEAN
      /\ before' = mem'[IF inplace' THEN "in" ELSE "out"]
  BY DEF Deliver
<1>4. /\ sealed.len \in Nat /\ size = sealed.len + TagLen /\ size \in Nat /\ size <= SizeSpace
      /\ \A i \in 1 .. sealed.len : R[i] = CipherByte(i - 1)
      /\ \A i \in 1 .. TagLen : R[sealed.len + i] = SealedTag(i)
      /\ R = [i \in 1 .. size |-> R[i]] /\ sealed.ad \in Seq(AdByte)
  <2>1. SealedAs /\ Len(sealed.record) <= SizeSpace /\ sealed.ad \in Seq(AdByte)
    BY DEF CarryInv, TagInv, Fits
  <2>2. /\ sealed.len \in Nat /\ Len(sealed.record) = sealed.len + TagLen
        /\ IsBytes(sealed.record, sealed.len + TagLen)
        /\ \A i \in 1 .. sealed.len : sealed.record[i] = CipherByte(i - 1)
        /\ \A i \in 1 .. TagLen : sealed.record[sealed.len + i] = SealedTag(i)
    BY <2>1, <1>1 DEF SealedAs
  <2>3. R = [i \in 1 .. sealed.len + TagLen |-> R[i]]
    BY <2>2 DEF IsBytes
  <2>4. sealed.len + TagLen \in Nat
    BY <2>2, Sizes
  <2> QED BY <2>1, <2>2, <2>3, <2>4
<1>5. SealedAs'
  <2>1. \A i : SealedTag(i)' = SealedTag(i)
    BY <1>1 DEF SealedTag
  <2> QED BY <2>1, <1>1 DEF CarryInv, SealedAs
<1> HIDE DEF R, size
<1>6. Source' = Put(Stale("in"), 0, Record(d))
  <2>1. mem'["in"] = Put(Stale("in"), 0, Record(d))
    BY <1>2
  <2> QED BY <2>1, <1>3 DEF Source
<1>7. Halfway'
  <2>1. mem'[dst'] = before'
    BY <1>3 DEF dst
  <2>2. \A i \in Offset : ~(i < 0)
    BY Sizes DEF Offset
  <2>3. Done' = 0
    BY <1>1 DEF Done
  <2> QED BY <2>1, <2>2, <2>3 DEF Halfway
<1>8. Origin'
  BY <1>1 DEF Origin
\* No byte of the record is the change.
<1>9. \A i \in 1 .. size : Xor(R[i], {<<"flip", i>>}) # R[i]
  <2> SUFFICES ASSUME NEW i \in 1 .. size PROVE <<"flip", i>> \notin R[i]
    BY XorChanges
  <2>1. CASE i <= sealed.len
    <3>1. i \in 1 .. sealed.len
      BY <2>1, <1>4
    <3>2. R[i] = CipherByte(i - 1)
      BY <3>1, <1>4
    <3>3. <<"flip", i>> # <<"plain", i - 1>> /\ <<"flip", i>> # <<"keystream", 1, i - 1>>
      BY Atoms
    <3> QED BY <3>2, <3>3 DEF CipherByte
  <2>2. CASE ~(i <= sealed.len)
    <3> DEFINE j == i - sealed.len
    <3>1. j \in 1 .. TagLen /\ sealed.len + j = i
      BY <2>2, <1>4, Sizes
    <3> HIDE DEF j
    <3>2. R[i] = SealedTag(j)
      BY <3>1, <1>4
    <3>3. <<"flip", i>> # <<"tag", 1, Layout(sealed.ad, Cipher(sealed.len)), j>>
      BY Atoms
    <3> QED BY <3>2, <3>3 DEF SealedTag
  <2> QED BY <2>1, <2>2
\* The five ways.
<1>10. ASSUME d.len \in 0 .. size
       PROVE  \A i \in 1 .. d.len : Source'[i - 1] = IF i = d.changed THEN Xor(R[i], {<<"flip", i>>}) ELSE R[i]
  <2> SUFFICES ASSUME NEW i \in 1 .. d.len
               PROVE  Source'[i - 1] = IF i = d.changed THEN Xor(R[i], {<<"flip", i>>}) ELSE R[i]
    OBVIOUS
  <2> DEFINE rec == Record(d)
  <2>1. Len(rec) = d.len /\ rec[i] = IF i = d.changed THEN Xor(R[i], {<<"flip", i>>}) ELSE R[i]
    BY <1>10, <1>4
  <2> HIDE DEF rec
  <2>2. Source' = Put(Stale("in"), 0, rec)
    BY <1>6 DEF rec
  <2> DEFINE k == i - 1
  <2>3. k \in Offset /\ k \in 0 .. 0 + Len(rec) - 1 /\ k - 0 + 1 = i
    BY <2>1, <1>4, <1>10, Sizes, SMTT(30) DEF Offset
  <2> HIDE DEF k
  <2>4. Source'[k] = rec[k - 0 + 1]
    BY <2>2, <2>3 DEF Put
  <2> QED BY <2>1, <2>3, <2>4 DEF k
<1>11. SUFFICES Delivered'
  BY <1>5, <1>7, <1>8 DEF CarryInv
<1> DEFINE A(n, c) == \A i \in 1 .. n : Source'[i - 1] = IF i = c THEN Xor(R[i], {<<"flip", i>>}) ELSE R[i]
<1>12. SUFFICES
         IF intact'
         THEN d.len = size /\ A(d.len, 0) /\ d.nonce = 1 /\ d.ad = sealed.ad
         ELSE \/ d.len \in 0 .. size - 1 /\ A(d.len, 0)
              \/ d.len = size /\ d.ad = sealed.ad /\ \E c \in 1 .. size : A(d.len, c)
              \/ d.len = size /\ A(d.len, 0) /\ d.nonce = 2
              \/ d.len = size /\ A(d.len, 0) /\ d.ad # sealed.ad
  <2>1. \A n, c : Arrives(n, c)' = A(n, c)
    BY <1>1 DEF Arrives, R
  <2> HIDE DEF A
  <2> QED BY <2>1, <1>1, <1>2 DEF Delivered, R, size
<1>13. d = all \/ (\E n \in 0 .. size - 1 : d = [all EXCEPT !.len = n])
         \/ (\E i \in 1 .. size : d = [all EXCEPT !.changed = i])
         \/ d = [all EXCEPT !.nonce = 2] \/ d = [all EXCEPT !.ad = wrong]
  <2>1. d \in Deliveries
    OBVIOUS
  <2> QED BY <2>1 DEF Deliveries, R, size
<1>14. wrong # sealed.ad
  <2>1. 1 \in Nat
    OBVIOUS
  <2>2. AdBytes(1) \in Seq(AdByte) /\ Len(AdBytes(1)) = 1
    BY <2>1, AdBytesType DEF AdBytes
  <2> DEFINE one == AdBytes(1)
  <2>3. one \in Seq(AdByte) /\ Len(one) = 1
    BY <2>2
  <2> HIDE DEF one
  <2>4. Len(sealed.ad \o one) = Len(sealed.ad) + Len(one) /\ Len(sealed.ad) \in Nat
    BY <2>3, <1>4, ConcatProperties, LenProperties
  <2>5. wrong = sealed.ad \o one
    BY DEF one
  <2> HIDE DEF wrong
  <2> QED BY <2>3, <2>4, <2>5
<1> HIDE DEF wrong
\* No byte is numbered 0.
<1>15. ASSUME d.len \in 0 .. size, d.changed = 0
       PROVE  A(d.len, 0)
  BY <1>10, <1>15
<1>16. size \in 0 .. size
  BY <1>4
<1> HIDE DEF A
<1>17. CASE d = all
  <2>1. d.len = size /\ d.changed = 0 /\ d.nonce = 1 /\ d.ad = sealed.ad
    BY <1>17
  <2>2. Record(d) = R
    <3>1. Record(d) = [i \in 1 .. size |-> R[i]]
      BY <2>1, <1>4
    <3> QED BY <3>1, <1>4
  <2>3. intact'
    BY <1>2, <2>1, <2>2
  <2>4. A(d.len, 0)
    BY <2>1, <1>16, <1>15
  <2> QED BY <2>1, <2>3, <2>4
<1>18. ASSUME NEW n \in 0 .. size - 1, d = [all EXCEPT !.len = n]
       PROVE  ~intact' /\ d.len \in 0 .. size - 1 /\ A(d.len, 0)
  <2>1. d.len = n /\ d.changed = 0
    BY <1>18
  <2>2. Len(Record(d)) = n /\ n # size /\ n \in Nat /\ n \in 0 .. size
    BY <2>1, <1>4
  <2>3. ~intact'
    BY <1>2, <2>2 DEF size
  <2>4. A(d.len, 0)
    BY <2>1, <2>2, <1>15
  <2> QED BY <2>1, <2>3, <2>4
<1>19. ASSUME NEW k \in 1 .. size, d = [all EXCEPT !.changed = k]
       PROVE  ~intact' /\ d.len = size /\ d.ad = sealed.ad /\ d.changed \in 1 .. size /\ A(d.len, d.changed)
  <2>1. d.len = size /\ d.changed = k /\ d.ad = sealed.ad
    BY <1>19
  <2>2. Record(d)[k] = Xor(R[k], {<<"flip", k>>})
    BY <2>1
  <2>3. ~intact'
    BY <1>2, <2>2, <1>9
  <2>4. \A i \in 1 .. d.len : Source'[i - 1] = IF i = d.changed THEN Xor(R[i], {<<"flip", i>>}) ELSE R[i]
    <3>1. d.len \in 0 .. size
      BY <2>1, <1>16
    <3> QED BY <3>1, <1>10
  <2>5. A(d.len, d.changed)
    BY <2>4 DEF A
  <2>6. d.changed \in 1 .. size
    BY <2>1
  <2> QED BY <2>1, <2>3, <2>5, <2>6
<1>20. CASE d = [all EXCEPT !.nonce = 2]
  <2>1. d.len = size /\ d.changed = 0 /\ d.nonce = 2
    BY <1>20
  <2>2. d.nonce # 1
    BY <2>1
  <2>3. ~intact'
    BY <1>2, <2>2
  <2>4. A(d.len, 0)
    BY <2>1, <1>16, <1>15
  <2> QED BY <2>1, <2>3, <2>4
<1>21. CASE d = [all EXCEPT !.ad = wrong]
  <2>1. d.len = size /\ d.changed = 0 /\ d.ad = wrong
    BY <1>21
  <2>2. ~intact'
    BY <1>2, <2>1, <1>14
  <2>3. A(d.len, 0)
    BY <2>1, <1>16, <1>15
  <2> QED BY <2>1, <2>2, <2>3, <1>14
<1> HIDE DEF all
<1> QED BY <1>13, <1>17, <1>18, <1>19, <1>20, <1>21

LEMMA NextKeepsCarry == IInv /\ TagInv /\ CarryInv /\ [Next]_vars => CarryInv'
<1> SUFFICES ASSUME IInv, TagInv, CarryInv, [Next]_vars PROVE CarryInv'
  OBVIOUS
<1>1. CASE UNCHANGED vars
  BY <1>1, StutterCarries
<1>2. CASE Next
  <2>1. TagInv'
    BY NextKeepsTagInv
  <2> QED BY <1>2, <2>1, SealCallCarries, SealCryptCarries, SealTagCarries, DeliverCarries,
             OpenCallCarries, OpenTagCarries, OpenCryptCarries, VerifyCarries,
             FusedAuthenticateCarries, FusedCryptCarries, FusedFinishCarries DEF Next
<1> QED BY <1>1, <1>2

-----------------------------------------------------------------------------
\* What Verify compares and leaves.
Opened ==
  pc = "verify" =>
    IF intact
    THEN /\ result' = 1 /\ out_len' = sealed.len
         /\ \A i \in 0 .. sealed.len - 1 : mem'[dst][i] = {<<"plain", i>>}
    ELSE /\ result' = 0
         /\ \A i \in 0 .. len - 1 : mem'[dst][i] = ZeroByte

\* The tag computed is of the record that arrived; the tag it is compared with is behind it.
LEMMA Compared ==
  ASSUME IInv, TagInv, CarryInv, pc = "verify"
  PROVE  /\ call = "open" /\ len \in Nat /\ len + TagLen <= SizeSpace
         /\ \A i \in 1 .. TagLen : tag[i] = {<<"tag", nonce, Layout(ad, Bytes(Source, 0, len)), i>>}
         /\ \A i \in 1 .. TagLen : Bytes(mem["in"], len, TagLen)[i] = Source[len + i - 1]
<1>1. call = "open" /\ len \in Nat /\ inplace \in BOOLEAN
  BY DEF IInv, Shape, Opening
<1>2. Message = Source
  BY <1>1 DEF Message, Source
<1>3. tag = TagOf(Layout(ad, Bytes(Source, 0, len)))
  BY <1>2 DEF TagInv, Tagged
<1>4. \A i \in 1 .. TagLen : tag[i] = {<<"tag", nonce, Layout(ad, Bytes(Source, 0, len)), i>>}
  BY <1>3 DEF TagOf
<1>5. Delivered /\ Halfway /\ Len(sealed.record) <= SizeSpace /\ Len(sealed.record) \in Nat
  BY DEF TagInv, CarryInv, Fits, IInv, Shape
<1>6. len + TagLen <= SizeSpace
  <2> DEFINE n == len + TagLen
             all == Len(sealed.record)
  <2>1. n = all \/ n \in 0 .. all - 1
    BY <1>1, <1>5 DEF Delivered
  <2>2. n \in Int
    BY <1>1, Sizes
  <2> HIDE DEF n, all
  <2>3. n <= all
    BY <2>1, <2>2, <1>5 DEF all
  <2> QED BY <2>2, <2>3, <1>5, Sizes DEF n, all
<1>7. ASSUME NEW i \in 1 .. TagLen
      PROVE  Bytes(mem["in"], len, TagLen)[i] = Source[len + i - 1]
  <2> DEFINE k == len + i - 1
  <2>1. Bytes(mem["in"], len, TagLen)[i] = mem["in"][k]
    BY DEF Bytes
  <2>2. k \in Offset /\ ~(k < len)
    BY <1>1, <1>6, Sizes DEF Offset
  <2> HIDE DEF k
  <2>3. CASE inplace
    <3>1. Done = len /\ dst = "in" /\ Source = before
      BY <2>3 DEF Done, dst, Source
    <3>2. mem["in"][k] = before[k]
      BY <3>1, <2>2, <1>5 DEF Halfway
    <3> QED BY <3>1, <3>2, <2>1 DEF k
  <2>4. CASE ~inplace
    <3>1. Source = mem["in"]
      BY <2>4 DEF Source
    <3> QED BY <3>1, <2>1 DEF k
  <2> QED BY <2>3, <2>4
<1> QED BY <1>1, <1>4, <1>6, <1>7

\* The ciphertext is the bytes of a buffer.
LEMMA CipherIsBytes ==
  ASSUME NEW n \in Nat PROVE Cipher(n) = Bytes([i \in Nat |-> CipherByte(i)], 0, n)
<1> DEFINE f == [i \in Nat |-> CipherByte(i)]
<1>1. \A i \in 1 .. n : i - 1 \in Nat /\ 0 + i - 1 = i - 1
  OBVIOUS
<1>2. \A i \in 1 .. n : f[0 + i - 1] = CipherByte(i - 1)
  BY <1>1
<1> HIDE DEF f
<1>3. Bytes(f, 0, n) = [i \in 1 .. n |-> CipherByte(i - 1)]
  BY <1>2 DEF Bytes
<1> QED BY <1>3 DEF f, Cipher

\* The tag sealed is that of no other nonce, associated data or ciphertext.
LEMMA OnlyOfSealed ==
  ASSUME NEW i, NEW n \in Nat, NEW k \in Nat, NEW f,
         ad \in Seq(AdByte), sealed.ad \in Seq(AdByte), sealed.len = k,
         {<<"tag", nonce, Layout(ad, Bytes(f, 0, n)), i>>} = SealedTag(i)
  PROVE  nonce = 1 /\ ad = sealed.ad /\ Bytes(f, 0, n) = Cipher(k)
<1> DEFINE g == [j \in Nat |-> CipherByte(j)]
<1>1. nonce = 1 /\ Layout(ad, Bytes(f, 0, n)) = Layout(sealed.ad, Cipher(k))
  <2> DEFINE x == Layout(ad, Bytes(f, 0, n))
             y == Layout(sealed.ad, Cipher(sealed.len))
  <2>1. {<<"tag", nonce, x, i>>} = {<<"tag", 1, y, i>>}
    BY DEF SealedTag
  <2> HIDE DEF x, y
  <2>2. nonce = 1 /\ x = y
    <3>1. <<"tag", nonce, x, i>> = <<"tag", 1, y, i>>
      BY <2>1, Zenon
    <3> QED BY <3>1
  <2> QED BY <2>2 DEF x, y
<1>2. Cipher(k) = Bytes(g, 0, k)
  BY CipherIsBytes
<1> HIDE DEF g
<1>3. ad = sealed.ad /\ Bytes(f, 0, n) = Bytes(g, 0, k)
  BY <1>1, <1>2, LayoutsTell
<1> QED BY <1>1, <1>2, <1>3

\* A record as it was sealed.
LEMMA IntactOpens == IInv /\ TagInv /\ CarryInv /\ Verify /\ intact => Opened
<1> SUFFICES ASSUME IInv, TagInv, CarryInv, Verify, intact PROVE Opened
  OBVIOUS
<1>1. pc = "verify"
  BY DEF Verify
<1>2. /\ call = "open" /\ len \in Nat /\ len + TagLen <= SizeSpace
      /\ \A i \in 1 .. TagLen : tag[i] = {<<"tag", nonce, Layout(ad, Bytes(Source, 0, len)), i>>}
      /\ \A i \in 1 .. TagLen : Bytes(mem["in"], len, TagLen)[i] = Source[len + i - 1]
  BY <1>1, Compared
<1>3. /\ sealed.len \in Nat /\ Len(sealed.record) = sealed.len + TagLen
      /\ \A i \in 1 .. sealed.len : sealed.record[i] = CipherByte(i - 1)
      /\ \A i \in 1 .. TagLen : sealed.record[sealed.len + i] = SealedTag(i)
  <2>1. SealedAs
    BY DEF CarryInv
  <2> QED BY <2>1, <1>2 DEF SealedAs
<1>4. len + TagLen = Len(sealed.record) /\ Arrives(len + TagLen, 0) /\ nonce = 1 /\ ad = sealed.ad
  BY <1>1, <1>2 DEF CarryInv, Delivered
<1>5. len = sealed.len
  BY <1>2, <1>3, <1>4, Sizes
<1>6. \A i \in 1 .. len + TagLen : Source[i - 1] = sealed.record[i]
  <2> SUFFICES ASSUME NEW i \in 1 .. len + TagLen PROVE Source[i - 1] = sealed.record[i]
    OBVIOUS
  <2>1. i # 0
    BY <1>2, Sizes
  <2> QED BY <2>1, <1>4 DEF Arrives
<1>7. \A i \in 1 .. len : Source[i - 1] = CipherByte(i - 1)
  <2> SUFFICES ASSUME NEW i \in 1 .. len PROVE Source[i - 1] = CipherByte(i - 1)
    OBVIOUS
  <2>1. i \in 1 .. len + TagLen
    BY <1>2, Sizes
  <2> QED BY <2>1, <1>3, <1>5, <1>6
<1>8. Bytes(Source, 0, len) = Cipher(len)
  <2>1. \A i \in 1 .. len : 0 + i - 1 = i - 1
    BY <1>2
  <2> QED BY <2>1, <1>7 DEF Bytes, Cipher
<1>9. CtEq(tag, Bytes(mem["in"], len, TagLen))
  <2> DEFINE b == Bytes(mem["in"], len, TagLen)
  <2>1. ASSUME NEW i \in 1 .. TagLen PROVE tag[i] = b[i]
    <3> DEFINE k == len + i
    <3>1. k \in 1 .. len + TagLen /\ k - 1 = len + i - 1
      BY <1>2, Sizes
    <3>2. sealed.record[k] = SealedTag(i)
      BY <1>3, <1>5
    <3> HIDE DEF k
    <3>3. Source[k - 1] = SealedTag(i)
      BY <3>1, <3>2, <1>6
    <3>4. tag[i] = SealedTag(i)
      BY <1>2, <1>4, <1>5, <1>8 DEF SealedTag
    <3>5. b[i] = Source[k - 1]
      BY <1>2, <3>1
    <3> QED BY <3>3, <3>4, <3>5
  <2> HIDE DEF b
  <2>2. CtEq(tag, b)
    BY <2>1, CtEqAll
  <2> QED BY <2>2 DEF b
<1>10. result' = 1 /\ out_len' = len /\ mem' = mem
  BY <1>9, Zenon DEF Verify
<1>11. ASSUME NEW i \in 0 .. len - 1 PROVE mem[dst][i] = {<<"plain", i>>}
  <2>1. i \in Offset /\ Done = len /\ i < len
    BY <1>1, <1>2, Sizes DEF Offset, Done
  <2>2. mem[dst][i] = Xor(Source[i], {<<"keystream", 1, i>>})
    BY <2>1, <1>1, <1>4 DEF CarryInv, Halfway
  <2>3. Source[i] = CipherByte(i)
    <3> DEFINE j == i + 1
    <3>1. j \in 1 .. len /\ j - 1 = i
      BY <1>2
    <3> HIDE DEF j
    <3> QED BY <3>1, <1>7
  <2>4. <<"plain", i>> # <<"keystream", 1, i>>
    BY Atoms
  <2> QED BY <2>2, <2>3, <2>4, XorTwice, ZenonT(60) DEF CipherByte
<1> QED BY <1>5, <1>10, <1>11 DEF Opened

\* Any other: some byte of the tags differs.
LEMMA DamagedDiffers ==
  ASSUME IInv, TagInv, CarryInv, pc = "verify", ~intact
  PROVE  \E j \in 1 .. TagLen : tag[j] # Bytes(mem["in"], len, TagLen)[j]
<1> DEFINE n   == len + TagLen
           all == Len(sealed.record)
           T(i) == {<<"tag", nonce, Layout(ad, Bytes(Source, 0, len)), i>>}
<1>1. /\ call = "open" /\ len \in Nat
      /\ \A i \in 1 .. TagLen : tag[i] = T(i)
      /\ \A i \in 1 .. TagLen : Bytes(mem["in"], len, TagLen)[i] = Source[len + i - 1]
  BY Compared
<1>2. /\ sealed.len \in Nat /\ all = sealed.len + TagLen
      /\ \A i \in 1 .. sealed.len : sealed.record[i] = CipherByte(i - 1)
      /\ \A i \in 1 .. TagLen : sealed.record[sealed.len + i] = SealedTag(i)
      /\ ad \in Seq(AdByte) /\ sealed.ad \in Seq(AdByte)
  <2>1. SealedAs /\ ad \in Seq(AdByte) /\ sealed.ad \in Seq(AdByte)
    BY DEF CarryInv, TagInv, Fits
  <2> QED BY <2>1, <1>1 DEF SealedAs
<1>3. \/ n \in 0 .. all - 1 /\ Arrives(n, 0)
      \/ n = all /\ ad = sealed.ad /\ \E c \in 1 .. all : Arrives(n, c)
      \/ n = all /\ Arrives(n, 0) /\ (nonce = 2 \/ ad # sealed.ad)
  BY <1>1 DEF CarryInv, Delivered
<1> HIDE DEF T
<1>4. SUFFICES \E j \in 1 .. TagLen : T(j) # Source[len + j - 1]
  BY <1>1
<1>5. n \in Nat /\ 1 \in 1 .. TagLen /\ len + 1 \in 1 .. n /\ len + 1 # 0 /\ (len + 1) - 1 = len /\ len + 1 - 1 = len
  BY <1>1, Sizes
\* Cut short: a byte of the ciphertext is taken for one of the tag.
<1>6. CASE n \in 0 .. all - 1 /\ Arrives(n, 0)
  <2> DEFINE k == len + 1
  <2>1. k \in 1 .. n /\ k # 0 /\ k \in 1 .. sealed.len /\ k - 1 = len
    BY <1>1, <1>2, <1>5, <1>6, Sizes, SMTT(30)
  <2> HIDE DEF k, n
  <2>2. Source[len] = CipherByte(len)
    BY <2>1, <1>2, <1>6 DEF Arrives
  <2>3. <<"plain", len>> \in CipherByte(len)
    BY DEF CipherByte
  <2>4. <<"plain", len>> \notin T(1)
    BY Atoms DEF T
  <2> QED BY <2>2, <2>3, <2>4, <1>5
<1>7. ASSUME n = all, NEW c, Arrives(n, c), c # len + 1, T(1) = Source[len]
      PROVE  /\ nonce = 1 /\ ad = sealed.ad /\ len = sealed.len
             /\ \A i \in 1 .. len : Source[i - 1] = CipherByte(i - 1)
  <2>1. len = sealed.len
    BY <1>1, <1>2, <1>7, Sizes
  <2>2. Source[len] = SealedTag(1)
    <3> DEFINE k == len + 1
    <3>1. k \in 1 .. n /\ k # c /\ k - 1 = len /\ 1 \in 1 .. TagLen
      BY <1>5, <1>7
    <3>2. sealed.record[k] = SealedTag(1)
      BY <3>1, <2>1, <1>2
    <3> HIDE DEF k, n
    <3> QED BY <3>1, <3>2, <1>7 DEF Arrives
  <2>3. {<<"tag", nonce, Layout(ad, Bytes(Source, 0, len)), 1>>} = SealedTag(1)
    BY <2>2, <1>7 DEF T
  <2>4. nonce = 1 /\ ad = sealed.ad /\ Bytes(Source, 0, len) = Cipher(len)
    <3> DEFINE f == Source
    <3>1. {<<"tag", nonce, Layout(ad, Bytes(f, 0, len)), 1>>} = SealedTag(1)
      BY <2>3
    <3> HIDE DEF f
    <3>2. nonce = 1 /\ ad = sealed.ad /\ Bytes(f, 0, len) = Cipher(len)
      BY <3>1, <2>1, <1>1, <1>2, OnlyOfSealed
    <3> QED BY <3>2 DEF f
  <2>5. ASSUME NEW i \in 1 .. len PROVE Source[i - 1] = CipherByte(i - 1)
    <3>1. Bytes(Source, 0, len)[i] = Source[0 + i - 1] /\ 0 + i - 1 = i - 1
      BY <1>1 DEF Bytes
    <3>2. Cipher(len)[i] = CipherByte(i - 1)
      BY DEF Cipher
    <3> QED BY <3>1, <3>2, <2>4
  <2> QED BY <2>1, <2>4, <2>5
\* A byte changed, of the ciphertext or of the tag.
<1>8. ASSUME n = all, NEW c \in 1 .. all, Arrives(n, c)
      PROVE  \E j \in 1 .. TagLen : T(j) # Source[len + j - 1]
  <2>1. Source[c - 1] = Xor(sealed.record[c], {<<"flip", c>>}) /\ len = sealed.len
    <3>1. Source[c - 1] = Xor(sealed.record[c], {<<"flip", c>>})
      BY <1>8 DEF Arrives
    <3>2. len = sealed.len
      BY <1>1, <1>2, <1>8, Sizes
    <3> QED BY <3>1, <3>2
  <2>2. CASE c <= len
    <3>1. c \in 1 .. len /\ c # len + 1
      BY <2>2, <1>1
    <3>2. sealed.record[c] = CipherByte(c - 1)
      BY <3>1, <2>1, <1>2
    <3>3. <<"flip", c>> # <<"plain", c - 1>> /\ <<"flip", c>> # <<"keystream", 1, c - 1>>
      BY Atoms
    <3>4. Source[c - 1] # CipherByte(c - 1)
      <4> DEFINE a == CipherByte(c - 1)
                 f == <<"flip", c>>
      <4>1. f \notin a
        BY <3>3 DEF CipherByte
      <4>2. Source[c - 1] = Xor(a, {f})
        BY <3>2, <2>1
      <4> HIDE DEF a, f
      <4>3. Source[c - 1] # a
        BY <4>1, <4>2, XorChanges
      <4> QED BY <4>3 DEF a
    <3>5. T(1) # Source[len]
      <4> HIDE DEF n, all
      <4> QED BY <3>1, <3>4, <1>7, <1>8
    <3> QED BY <3>5, <1>5
  <2>3. CASE ~(c <= len)
    <3> DEFINE j == c - len
    <3>1. j \in 1 .. TagLen /\ len + j = c /\ len + j - 1 = c - 1
      <4>1. c \in 1 .. len + TagLen
        BY <2>1, <1>2
      <4> HIDE DEF n, all
      <4>2. c \in Nat
        BY <4>1, <1>1, Sizes
      <4>3. j \in 1 .. TagLen
        BY <4>1, <4>2, <2>3, <1>1, Sizes
      <4>4. len + j = c
        BY <4>2, <1>1
      <4>5. j \in Nat
        BY <4>3, Sizes
      <4> HIDE DEF j
      <4>6. len + j - 1 = c - 1
        BY <4>2, <4>4, <4>5, <1>1
      <4> QED BY <4>3, <4>4, <4>6
    <3> HIDE DEF j
    <3>2. sealed.record[c] = SealedTag(j)
      BY <3>1, <2>1, <1>2
    <3>3. <<"flip", c>> # <<"tag", 1, Layout(sealed.ad, Cipher(sealed.len)), j>>
      BY Atoms
    <3>4. <<"flip", c>> # <<"tag", nonce, Layout(ad, Bytes(Source, 0, len)), j>>
      BY Atoms
    <3>5. <<"flip", c>> \in Source[c - 1]
      BY <2>1, <3>2, <3>3 DEF Xor, SealedTag
    <3>6. <<"flip", c>> \notin T(j)
      BY <3>4 DEF T
    <3> QED BY <3>1, <3>5, <3>6
  <2> QED BY <2>2, <2>3
\* Another nonce, other associated data.
<1>9. CASE n = all /\ Arrives(n, 0) /\ (nonce = 2 \/ ad # sealed.ad)
  <2> HIDE DEF n, all
  <2>1. T(1) # Source[len]
    <3>1. 0 # len + 1
      BY <1>5
    <3>2. ~(nonce = 1 /\ ad = sealed.ad)
      BY <1>9
    <3> QED BY <3>1, <3>2, <1>7, <1>9
  <2> QED BY <2>1, <1>5
<1> HIDE DEF n, all
<1> QED BY <1>3, <1>6, <1>8, <1>9

LEMMA DamagedWiped == IInv /\ TagInv /\ CarryInv /\ Verify /\ ~intact => Opened
<1> SUFFICES ASSUME IInv, TagInv, CarryInv, Verify, ~intact PROVE Opened
  OBVIOUS
<1> DEFINE b == Bytes(mem["in"], len, TagLen)
<1>1. pc = "verify"
  BY DEF Verify
<1>2. len \in Nat /\ len + TagLen <= SizeSpace /\ DOMAIN mem = Buffer
  BY <1>1, Compared DEF IInv, Shape
<1>3. \E j \in 1 .. TagLen : tag[j] # b[j]
  BY <1>1, DamagedDiffers
<1>4. ~CtEq(tag, b)
  <2> HIDE DEF b
  <2> QED BY <1>3, CtEqAll
<1>5. result' = 0 /\ mem' = [mem EXCEPT ![dst] = Put(@, 0, Zeros(len))]
  BY <1>4, Zenon DEF Verify
<1>6. mem'[dst] = Put(mem[dst], 0, Zeros(len))
  BY <1>2, <1>5, DstIsBuffer
<1>7. ASSUME NEW i \in 0 .. len - 1 PROVE mem'[dst][i] = ZeroByte
  <2> DEFINE z == Zeros(len)
             k == i - 0 + 1
  <2>1. Len(z) = len
    BY <1>2, ZerosLength
  <2>2. k \in 1 .. len
    BY <1>2
  <2>3. z[k] = ZeroByte
    BY <2>2 DEF Zeros
  <2> HIDE DEF z
  <2>4. i \in Offset /\ i \in 0 .. 0 + Len(z) - 1
    BY <1>2, <2>1, Sizes DEF Offset
  <2>5. mem'[dst][i] = z[k]
    BY <1>6, <2>4 DEF Put, z
  <2> QED BY <2>3, <2>5 DEF z
<1> QED BY <1>5, <1>7 DEF Opened

LEMMA EveryVerifyOpens == IInv /\ TagInv /\ CarryInv /\ [Next]_vars => [Opened]_vars
<1> SUFFICES ASSUME IInv, TagInv, CarryInv, Next, pc = "verify" PROVE Opened
  BY DEF Opened
<1>1. Verify
  BY DEF Next, SealCall, SealCrypt, SealTag, Deliver, OpenCall, OpenTag, OpenCrypt,
         FusedAuthenticate, FusedCrypt, FusedFinish
<1> QED BY <1>1, IntactOpens, DamagedWiped

\* What open accepts is the plaintext that was sealed, every byte of it, by whichever
\* paths it was sealed and opened, in place or not; a record cut short, changed in a byte
\* or opened with another nonce or other associated data is refused and wiped.
THEOREM ApiOpensWhatWasSealed == Spec => OpensWhatWasSealed
<1>1. Init => IInv /\ TagInv /\ CarryInv
  BY InitIInv, InitTagInv, InitCarry
<1>2. IInv /\ TagInv /\ CarryInv /\ [Next]_vars => (IInv /\ TagInv /\ CarryInv)'
  BY NextKeepsIInv, NextKeepsTagInv, NextKeepsCarry
<1>3. IInv /\ TagInv /\ CarryInv /\ [Next]_vars => [Opened]_vars
  BY EveryVerifyOpens
<1>4. OpensWhatWasSealed <=> [][Opened]_vars
  BY PTL DEF OpensWhatWasSealed, Opened
<1> QED BY <1>1, <1>2, <1>3, <1>4, PTL DEF Spec

-----------------------------------------------------------------------------
(***************************************************************************)
(* The AVX-512 path is the one the records of Seal512 and Open512 run.     *)
(***************************************************************************)

\* What is hashed up to an offset is that long.
LEMMA HashedToLength ==
  ASSUME IInv, TagInv, pc = "fused",
         NEW to \in Nat, Len(hashed) <= to, to <= len,
         Len(hashed) < to => Kernels!MayAuthenticate(to, crypted)
  PROVE  Len(HashedTo(to)) = to
<1>1. HashedTo(to) = Bytes(Message, 0, to)
  BY HashedFront
<1> QED BY <1>1, BytesLength

LEMMA EntersAsRecord ==
  ASSUME IInv, TagInv, IInv', TagInv', [Next]_vars, pc # "fused", pc' = "fused"
  PROVE  Kernels!Init'
<1>1. SealCall \/ OpenCall
  BY DEF Next, vars, SealCall, SealCrypt, SealTag, SealReturn, Deliver, OpenCall, OpenTag, OpenCrypt,
         Verify, FusedAuthenticate, FusedCrypt, FusedFinish
<1>2. pc = "start" /\ UNCHANGED <<crypted, hashed>>
  BY <1>1 DEF SealCall, OpenCall, Seal, Open, SealScatter, OpenGather, Reject, Begin
<1>3. crypted' = 0 /\ hashed' = <<>>
  BY <1>2 DEF TagInv, Order
<1>4. len' \in Nat /\ Len(<<>>) = 0
  BY DEF IInv, Shape
<1> QED BY <1>3, <1>4 DEF Kernels!Init

LEMMA RunsAsRecord ==
  ASSUME IInv, TagInv, Next, pc = "fused"
  PROVE  Kernels!Next
<1>1. FusedAuthenticate \/ FusedCrypt \/ FusedFinish
  BY DEF Next, SealCall, SealCrypt, SealTag, Deliver, OpenCall, OpenTag, OpenCrypt, Verify
<1>2. crypted \in Nat /\ len \in Nat /\ Len(hashed) \in Nat /\ Len(hashed) <= len
  BY DEF IInv, Shape, TagInv, Order
<1>3. CASE FusedAuthenticate
  <2>1. PICK to \in Len(hashed) + 1 .. len :
          Kernels!MayAuthenticate(to, crypted) /\ hashed' = HashedTo(to)
    BY <1>3 DEF FusedAuthenticate
  <2>2. to \in Nat /\ Len(hashed) <= to /\ to <= len
    BY <1>2
  <2>3. Len(hashed)' = to
    BY <2>1, <2>2, HashedToLength
  <2>4. UNCHANGED <<pc, call, inplace, len, crypted>>
    BY <1>3 DEF FusedAuthenticate, args
  <2> QED BY <2>1, <2>3, <2>4 DEF Kernels!Next, Kernels!Authenticate, Kernels!Progress
<1>4. CASE FusedCrypt
  <2>1. PICK to \in crypted + 1 .. len : Kernels!MayWrite(to, Len(hashed)) /\ crypted' = to
    BY <1>4 DEF FusedCrypt
  <2>2. UNCHANGED <<pc, call, inplace, len, hashed>>
    BY <1>4 DEF FusedCrypt, args
  <2> QED BY <2>1, <2>2 DEF Kernels!Next, Kernels!Crypt, Kernels!Progress
<1>5. CASE FusedFinish
  <2>1. /\ crypted = len /\ hashed' = HashedTo(len) /\ pc' # "fused"
        /\ Len(hashed) < len => Kernels!MayAuthenticate(len, crypted)
        /\ UNCHANGED <<call, inplace, len, crypted>>
    BY <1>5 DEF FusedFinish, SealReturn, args
  <2>2. Len(hashed)' = len
    BY <2>1, <1>2, HashedToLength
  <2> QED BY <2>1, <2>2 DEF Kernels!Next, Kernels!Finish
<1> QED BY <1>1, <1>3, <1>4, <1>5

\* A call that takes the AVX-512 path enters the kernels as AeadRecord starts, with
\* nothing encrypted and nothing authenticated, and every step it spends there is a step
\* of AeadRecord, which returns only once the whole record has been both.  What seal and
\* open promise thus rests on nothing the kernels do not keep: OpenRefinesRecord and
\* SealRefinesRecord are the other half.
THEOREM ApiRunsRecord ==
  Spec => [][/\ pc # "fused" /\ pc' = "fused" => Kernels!Init'
             /\ pc = "fused" => Kernels!Next]_vars
<1>1. Init => IInv /\ TagInv
  BY InitIInv, InitTagInv
<1>2. IInv /\ TagInv /\ [Next]_vars => IInv' /\ TagInv'
  BY NextKeepsIInv, NextKeepsTagInv
<1>3. IInv /\ TagInv /\ IInv' /\ TagInv' /\ [Next]_vars
        => [/\ pc # "fused" /\ pc' = "fused" => Kernels!Init'
            /\ pc = "fused" => Kernels!Next]_vars
  BY EntersAsRecord, RunsAsRecord
<1> QED BY <1>1, <1>2, <1>3, PTL DEF Spec
=============================================================================
