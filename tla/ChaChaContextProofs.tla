------------------------ MODULE ChaChaContextProofs -------------------------
(***************************************************************************)
(* The streaming context, for updates of any length in any order and a     *)
(* counter of any width: the inductive invariant, and what follows.        *)
(***************************************************************************)
EXTENDS ChaChaContext, KernelLemmas

-----------------------------------------------------------------------------
(***************************************************************************)
(* Offsets and blocks.                                                     *)
(***************************************************************************)

\* An offset is so many blocks and a rest.
LEMMA OffsetSplits ==
  ASSUME NEW n \in Nat
  PROVE  n \div 64 \in Nat /\ n % 64 \in 0 .. 63 /\ n = 64 * (n \div 64) + (n % 64)
  BY Z3

\* And blocks and a rest are an offset.
LEMMA OffsetOf ==
  ASSUME NEW q \in Nat, NEW r \in 0 .. 63
  PROVE  (64 * q + r) \div 64 = q /\ (64 * q + r) % 64 = r
  BY Z3

\* Two moves of a counter are one.
LEMMA AdvanceTwice ==
  ASSUME NEW c \in Nat, NEW a \in Nat, NEW b \in Nat
  PROVE  AdvanceCounter(AdvanceCounter(c, a), b) = AdvanceCounter(c, a + b)
<1>1. CounterSpace \in Nat /\ CounterSpace > 0 /\ c + a \in Nat
  BY CounterSpaceAssumption
<1>2. (((c + a) % CounterSpace) + b) % CounterSpace = ((c + a) + b) % CounterSpace
  BY <1>1, ReduceThenAdd
<1>3. (c + a) + b = c + (a + b)
  OBVIOUS
<1> QED BY <1>2, <1>3 DEF AdvanceCounter

\* Further on in the same block.
LEMMA SameBlock ==
  ASSUME NEW n \in Nat, NEW k \in Nat, (n % 64) + k < 64
  PROVE  (n + k) % 64 = (n % 64) + k /\ BlockAt(n + k) = BlockAt(n)
<1> DEFINE q == n \div 64
           r == n % 64
<1>1. q \in Nat /\ r \in 0 .. 63 /\ n = 64 * q + r
  BY OffsetSplits
<1>2. r + k \in 0 .. 63 /\ n + k = 64 * q + (r + k)
  <2> HIDE DEF q, r
  <2>1. r + k < 64
    BY DEF r
  <2> QED BY <1>1, <2>1
<1>3. (n + k) \div 64 = q /\ (n + k) % 64 = r + k
  <2> HIDE DEF q, r
  <2>1. (64 * q + (r + k)) \div 64 = q /\ (64 * q + (r + k)) % 64 = r + k
    BY <1>1, <1>2, OffsetOf, ZenonT(30)
  <2> QED BY <1>2, <2>1
<1> QED BY <1>3 DEF BlockAt

\* The offset at which the block with a byte starts.
StartOf(n) == n - (n % 64)

\* The counter k blocks on is that of the block k blocks on.
LEMMA BlocksOn ==
  ASSUME c0 \in Nat, NEW n \in Nat, NEW k \in Nat
  PROVE  /\ (StartOf(n) + 64 * k) % 64 = 0
         /\ AdvanceCounter(BlockAt(n), k) = BlockAt(StartOf(n) + 64 * k)
<1> DEFINE q == n \div 64
           r == n % 64
           m == StartOf(n) + 64 * k
<1>1. q \in Nat /\ r \in 0 .. 63 /\ n = 64 * q + r
  BY OffsetSplits
<1>2. m = 64 * (q + k) + 0 /\ q + k \in Nat
  <2>1. m = n - r + 64 * k
    BY DEF r, StartOf
  <2> HIDE DEF q, r
  <2> QED BY <1>1, <2>1
<1>3. m \div 64 = q + k /\ m % 64 = 0
  <2> HIDE DEF q, r
  <2>1. (64 * (q + k) + 0) \div 64 = q + k /\ (64 * (q + k) + 0) % 64 = 0
    BY <1>2, OffsetOf
  <2> QED BY <1>2, <2>1
<1>4. AdvanceCounter(AdvanceCounter(c0, q), k) = AdvanceCounter(c0, q + k)
  <2>1. q \in Nat
    BY <1>1
  <2> QED BY <2>1, AdvanceTwice
<1>5. BlockAt(n) = AdvanceCounter(c0, q) /\ BlockAt(m) = AdvanceCounter(c0, q + k)
  BY <1>3 DEF BlockAt
<1>6. m % 64 = 0 /\ AdvanceCounter(BlockAt(n), k) = BlockAt(m)
  <2> HIDE DEF q, r, m
  <2> QED BY <1>3, <1>4, <1>5
<1> QED BY <1>6

\* From the start of a block, k whole blocks further.
LEMMA WholeBlocksOn ==
  ASSUME c0 \in Nat, NEW n \in Nat, NEW k \in Nat, n % 64 = 0
  PROVE  (n + 64 * k) % 64 = 0 /\ AdvanceCounter(BlockAt(n), k) = BlockAt(n + 64 * k)
<1>1. StartOf(n) = n
  BY DEF StartOf
<1>2. /\ (StartOf(n) + 64 * k) % 64 = 0
      /\ AdvanceCounter(BlockAt(n), k) = BlockAt(StartOf(n) + 64 * k)
  BY BlocksOn
<1> QED BY <1>1, <1>2

\* To the end of the block.
LEMMA EndOfBlock ==
  ASSUME c0 \in Nat, NEW n \in Nat, NEW d \in Nat, (n % 64) + d = 64
  PROVE  (n + d) % 64 = 0 /\ AdvanceCounter(BlockAt(n), 1) = BlockAt(n + d)
<1>1. StartOf(n) + 64 * 1 = n + d
  <2> DEFINE r == n % 64
  <2>1. r + d = 64 /\ r \in 0 .. 63 /\ StartOf(n) = n - r
    BY OffsetSplits DEF StartOf
  <2> HIDE DEF r
  <2> QED BY <2>1
<1>2. /\ (StartOf(n) + 64 * 1) % 64 = 0
      /\ AdvanceCounter(BlockAt(n), 1) = BlockAt(StartOf(n) + 64 * 1)
  <2> DEFINE k == 1
  <2>1. k \in Nat
    OBVIOUS
  <2> HIDE DEF k
  <2>2. /\ (StartOf(n) + 64 * k) % 64 = 0
        /\ AdvanceCounter(BlockAt(n), k) = BlockAt(StartOf(n) + 64 * k)
    BY <2>1, BlocksOn
  <2> QED BY <2>2 DEF k
<1> QED BY <1>1, <1>2

\* A counter stays in its space, and one that does not move stays itself.
LEMMA AdvanceType ==
  ASSUME NEW c \in Nat, NEW k \in Nat
  PROVE  /\ AdvanceCounter(c, k) \in 0 .. CounterSpace - 1
         /\ c < CounterSpace => AdvanceCounter(c, 0) = c
<1>1. c + k \in Nat /\ c + 0 = c
  OBVIOUS
<1>2. (c + k) % CounterSpace \in 0 .. CounterSpace - 1
  BY <1>1, CounterInRange
<1>3. c < CounterSpace => c % CounterSpace = c
  BY CounterSpaceAssumption, Z3
<1> QED BY <1>1, <1>2, <1>3 DEF AdvanceCounter

-----------------------------------------------------------------------------
(***************************************************************************)
(* The steps of an update.                                                 *)
(***************************************************************************)

\* Bytes xored with the block they need follow the ones before.
LEMMA XoredInOrder ==
  ASSUME out \in Nat, NEW n \in Nat, NEW b, NEW from,
         n > 0 => out % 64 = from /\ b = Current(BlockAt(out))
  PROVE  Xored(n, b, from) = out + n
<1>1. CASE n = 0
  BY <1>1 DEF Xored
<1>2. CASE n > 0
  <2>1. n # 0 /\ out # Garbled
    BY <1>2 DEF Garbled
  <2> QED BY <1>2, <2>1 DEF Xored, Current
<1> QED BY <1>1, <1>2

\* The state of the buffer after a step of an update, over its own variables.
LEMMA BufferAfter ==
  ASSUME UNCHANGED <<c0, stream>>,
         used' < 64 => /\ out' % 64 = used' /\ used' > 0
                       /\ ks' = Current(BlockAt(out'))
                       /\ ctr' = AdvanceCounter(BlockAt(out'), 1),
         used' = 64 => out' % 64 = 0 /\ ctr' = BlockAt(out')
  PROVE  BufferInv'
<1>1. Current(BlockAt(out')) = Current(BlockAt(out))'
  BY DEF Current, BlockAt
<1>2. BlockAt(out') = BlockAt(out)'
  BY DEF BlockAt
<1>3. AdvanceCounter(BlockAt(out'), 1) = AdvanceCounter(BlockAt(out), 1)'
  BY <1>2 DEF AdvanceCounter
<1> QED BY <1>1, <1>2, <1>3 DEF BufferInv

\* What the invariant says of the numbers of a state.
LEMMA StateFacts ==
  ASSUME IInv
  PROVE  /\ out \in Nat /\ inl \in Nat /\ given \in Nat /\ used \in 0 .. 64
         /\ c0 \in Nat /\ ctr \in Nat /\ ctr < CounterSpace /\ stream \in Nat
         /\ out + inl = given
         /\ BlockAt(out) \in Nat
<1>1. /\ out \in Nat /\ inl \in Nat /\ given \in Nat /\ used \in 0 .. 64
      /\ c0 \in Nat /\ ctr \in Nat /\ ctr < CounterSpace /\ stream \in Nat
      /\ out + inl = given
  BY CounterSpaceAssumption DEF IInv, TypeOK, UpdateInv
<1>2. out \div 64 \in Nat
  BY <1>1, OffsetSplits
<1>3. BlockAt(out) \in 0 .. CounterSpace - 1
  BY <1>1, <1>2, AdvanceType DEF BlockAt
<1> QED BY <1>1, <1>3, CounterSpaceAssumption

\* Draining the buffer.
LEMMA DrainStep ==
  ASSUME IInv, Drain
  PROVE  IInv' /\ out' \in out .. given
<1> DEFINE n == IF inl <= 64 - used THEN inl ELSE 64 - used
<1>1. /\ out \in Nat /\ inl \in Nat /\ given \in Nat /\ used \in 0 .. 64
      /\ c0 \in Nat /\ ctr \in Nat /\ ctr < CounterSpace /\ stream \in Nat
      /\ out + inl = given
  BY StateFacts
<1>2. /\ pc = "drain" /\ pc' = "whole" /\ out' = Xored(n, ks, used)
      /\ used' = used + n /\ inl' = inl - n
      /\ UNCHANGED <<stream, c0, ctr, ks, given>>
  BY DEF Drain
<1>3. /\ n \in Nat /\ n <= inl /\ used + n <= 64
      /\ n > 0 => used < 64
      /\ used + n < 64 => inl = n
  BY <1>1
<1>4. BufferInv
  BY <1>2 DEF IInv
<1> HIDE DEF n
<1>5. used < 64 => /\ out % 64 = used /\ used > 0
                   /\ ks = Current(BlockAt(out))
                   /\ ctr = AdvanceCounter(BlockAt(out), 1)
  BY <1>4 DEF BufferInv
<1>6. used = 64 => out % 64 = 0 /\ ctr = BlockAt(out)
  BY <1>4 DEF BufferInv
<1>7. out' = out + n
  BY <1>1, <1>2, <1>3, <1>5, XoredInOrder
<1>8. BufferInv'
  <2>1. CASE used = 64
    <3>1. used' = 64 /\ out' = out
      BY <1>1, <1>2, <1>3, <1>7, <2>1
    <3> QED BY <1>2, <1>6, <2>1, <3>1, BufferAfter
  <2>2. CASE used + n < 64
    <3>1. used < 64
      BY <1>1, <1>3, <2>2
    <3>2. out % 64 = used
      BY <1>5, <3>1
    <3>3. (out % 64) + n < 64
      BY <2>2, <3>2
    <3>4. (out + n) % 64 = used + n /\ BlockAt(out + n) = BlockAt(out)
      BY <1>1, <1>3, <3>2, <3>3, SameBlock
    <3>5. used + n > 0 /\ used + n # 64
      BY <1>1, <1>3, <1>5, <2>2, <3>1
    <3>6. used' = used + n /\ ks' = ks /\ ctr' = ctr /\ UNCHANGED <<c0, stream>>
      BY <1>2
    <3> QED BY <1>5, <1>7, <3>1, <3>4, <3>5, <3>6, BufferAfter
  <2>3. CASE used < 64 /\ used + n = 64
    <3>1. out % 64 = used /\ ctr = AdvanceCounter(BlockAt(out), 1)
      BY <1>5, <2>3
    <3>2. (out % 64) + n = 64
      BY <2>3, <3>1
    <3>5. (out + n) % 64 = 0 /\ AdvanceCounter(BlockAt(out), 1) = BlockAt(out + n)
      BY <1>1, <1>3, <3>2, EndOfBlock, Zenon
    <3>6. used' = 64 /\ ctr' = ctr /\ UNCHANGED <<c0, stream>>
      BY <1>2, <2>3
    <3> QED BY <1>7, <3>1, <3>5, <3>6, BufferAfter
  <2> QED BY <1>1, <1>3, <2>1, <2>2, <2>3
<1>9. /\ out' \in Nat /\ out' \in out .. given /\ inl' \in Nat /\ used' \in 0 .. 64
      /\ out' + inl' = given'
      /\ inl' > 0 => used' = 64
  BY <1>1, <1>2, <1>3, <1>7
<1>10. TypeOK'
  BY <1>2, <1>9 DEF TypeOK, IInv
<1>11. UpdateInv'
  BY <1>2, <1>9 DEF UpdateInv, Garbled
<1> QED BY <1>8, <1>9, <1>10, <1>11 DEF IInv

\* Whole blocks.
LEMMA WholeStep ==
  ASSUME IInv, Whole
  PROVE  IInv' /\ out' \in out .. given
<1> DEFINE k == inl \div 64
<1>1. /\ out \in Nat /\ inl \in Nat /\ given \in Nat /\ used \in 0 .. 64
      /\ c0 \in Nat /\ ctr \in Nat /\ ctr < CounterSpace /\ stream \in Nat
      /\ out + inl = given
  BY StateFacts
<1>2. /\ k \in Nat /\ 64 * k <= inl /\ inl - 64 * k < 64
  BY <1>1, OffsetSplits
<1>3. (64 * k) \div 64 = k
  <2>1. (64 * k + 0) \div 64 = k
    BY <1>2, OffsetOf
  <2> QED BY <1>2, <2>1
<1>4. /\ pc = "whole" /\ pc' = "partial" /\ out' = Xored(64 * k, Current(ctr), 0)
      /\ ctr' = AdvanceCounter(ctr, k) /\ inl' = inl - 64 * k
      /\ UNCHANGED <<stream, c0, ks, used, given>>
  BY <1>3 DEF Whole
<1> HIDE DEF k
<1>5. BufferInv /\ (inl > 0 => used = 64)
  BY <1>4 DEF IInv, UpdateInv
<1>6. used = 64 => out % 64 = 0 /\ ctr = BlockAt(out)
  BY <1>5 DEF BufferInv
<1>7. k > 0 => used = 64
  BY <1>1, <1>2, <1>5
<1>8. out' = out + 64 * k
  <2>1. 64 * k \in Nat /\ (64 * k > 0 => k > 0)
    BY <1>2
  <2> QED BY <1>1, <1>4, <1>6, <1>7, <2>1, XoredInOrder
<1>9. BufferInv'
  <2>1. CASE k = 0
    <3>1. ctr' = ctr /\ out' = out
      BY <1>1, <1>4, <1>8, <2>1, AdvanceType
    <3>2. UNCHANGED <<c0, stream, ks, used>>
      BY <1>4
    <3> QED BY <1>5, <3>1, <3>2, BufferAfter DEF BufferInv
  <2>2. CASE k > 0
    <3>1. out % 64 = 0 /\ ctr = BlockAt(out) /\ used = 64
      BY <1>6, <1>7, <2>2
    <3>3. out' % 64 = 0 /\ AdvanceCounter(BlockAt(out), k) = BlockAt(out')
      BY <1>1, <1>2, <1>8, <3>1, WholeBlocksOn, Zenon
    <3>4. used' = 64 /\ UNCHANGED <<c0, stream>>
      BY <1>4, <3>1
    <3> QED BY <1>4, <3>1, <3>3, <3>4, BufferAfter
  <2> QED BY <1>2, <2>1, <2>2
<1>10. /\ out' \in Nat /\ out' \in out .. given /\ inl' \in Nat /\ inl' < 64
       /\ out' + inl' = given' /\ (inl' > 0 => inl > 0)
  BY <1>1, <1>2, <1>4, <1>8
<1>11. ctr' \in 0 .. CounterSpace - 1
  BY <1>1, <1>2, <1>4, AdvanceType
<1>12. TypeOK'
  BY <1>4, <1>10, <1>11 DEF TypeOK, IInv
<1>13. UpdateInv'
  BY <1>4, <1>5, <1>10 DEF UpdateInv, Garbled
<1> QED BY <1>9, <1>10, <1>12, <1>13 DEF IInv

\* The rest, from a block of its own.
LEMMA PartialStep ==
  ASSUME IInv, Partial
  PROVE  IInv' /\ out' \in out .. given
<1>1. /\ out \in Nat /\ inl \in Nat /\ given \in Nat /\ used \in 0 .. 64
      /\ c0 \in Nat /\ ctr \in Nat /\ ctr < CounterSpace /\ stream \in Nat
      /\ out + inl = given
  BY StateFacts
<1>2. /\ pc = "partial" /\ pc' = "idle" /\ inl' = 0
      /\ UNCHANGED <<stream, c0, given>>
  BY DEF Partial
<1>3. BufferInv /\ (inl > 0 => used = 64) /\ inl < 64
  BY <1>2 DEF IInv, UpdateInv
<1>4. CASE inl = 0
  <2>1. UNCHANGED <<out, ctr, ks, used>>
    BY <1>4 DEF Partial
  <2>2. BufferInv'
    BY <1>2, <1>3, <2>1, BufferAfter DEF BufferInv
  <2>3. TypeOK'
    BY <1>2, <2>1 DEF TypeOK, IInv
  <2>4. UpdateInv' /\ out' \in out .. given
    BY <1>1, <1>2, <1>4, <2>1 DEF UpdateInv, Garbled
  <2> QED BY <2>2, <2>3, <2>4 DEF IInv
<1>5. CASE inl > 0
  <2>1. /\ ks' = Current(ctr) /\ ctr' = AdvanceCounter(ctr, 1)
        /\ out' = Xored(inl, ks', 0) /\ used' = inl
    BY <1>5 DEF Partial
  <2>2. out % 64 = 0 /\ ctr = BlockAt(out)
    BY <1>3, <1>5 DEF BufferInv
  <2>3. out' = out + inl
    BY <1>1, <2>1, <2>2, XoredInOrder
  <2>4. (out % 64) + inl < 64 /\ (out % 64) + inl = inl
    BY <1>1, <1>3, <2>2
  <2>5. out' % 64 = inl /\ BlockAt(out') = BlockAt(out)
    BY <1>1, <2>3, <2>4, SameBlock, Zenon
  <2>6. used' # 64 /\ used' > 0 /\ used' \in 0 .. 64
    BY <1>1, <1>3, <1>5, <2>1
  <2>7. ks' = Current(BlockAt(out')) /\ ctr' = AdvanceCounter(BlockAt(out'), 1)
    BY <2>1, <2>2, <2>5
  <2>8. BufferInv'
    BY <1>2, <2>1, <2>5, <2>6, <2>7, BufferAfter
  <2>9. ctr' \in 0 .. CounterSpace - 1
    BY <1>1, <2>1, AdvanceType
  <2>10. ks' \in [of: Nat, block: 0 .. CounterSpace - 1]
    <3>1. ctr \in 0 .. CounterSpace - 1
      BY DEF IInv, TypeOK
    <3> QED BY <1>1, <2>1, <3>1 DEF Current
  <2>11. out' \in Nat /\ out' \in out .. given /\ out' + inl' = given'
    BY <1>1, <1>2, <2>3
  <2>12. TypeOK'
    BY <1>2, <2>6, <2>9, <2>10, <2>11 DEF TypeOK, IInv
  <2>13. UpdateInv'
    BY <1>2, <2>11 DEF UpdateInv, Garbled
  <2> QED BY <2>8, <2>11, <2>12, <2>13 DEF IInv
<1> QED BY <1>1, <1>4, <1>5

-----------------------------------------------------------------------------
(***************************************************************************)
(* The other calls, and the theorems.                                      *)
(***************************************************************************)

\* A new stream starts at its own counter with no block buffered.
LEMMA InitContextStep ==
  ASSUME IInv, InitContext
  PROVE  IInv'
<1>1. /\ c0' \in FirstCounters /\ ctr' = c0' /\ stream' = stream + 1
      /\ used' = 64 /\ given' = 0 /\ out' = 0 /\ pc' = "idle"
      /\ inl' = inl /\ ks' = ks /\ inl = 0
  BY DEF InitContext, IInv, UpdateInv
<1>2. c0' \in 0 .. CounterSpace - 1
  BY <1>1, ContextAssumption
<1>3. TypeOK'
  BY <1>1, <1>2 DEF TypeOK, IInv
<1>4. UpdateInv'
  BY <1>1 DEF UpdateInv, Garbled
<1>5. BufferInv'
  <2>1. 0 % 64 = 0 /\ 0 \div 64 = 0
    BY Z3
  <2>2. AdvanceCounter(c0', 0) = c0'
    BY <1>2, CounterSpaceAssumption, AdvanceType
  <2>3. BlockAt(out)' = AdvanceCounter(c0', 0)
    BY <1>1, <2>1 DEF BlockAt, AdvanceCounter
  <2> QED BY <1>1, <2>1, <2>2, <2>3 DEF BufferInv
<1> QED BY <1>3, <1>4, <1>5 DEF IInv

\* What is given only grows.
LEMMA MoreIsNat ==
  ASSUME NEW a \in Nat, NEW b \in Nat
  PROVE  a + b \in Nat /\ a + b >= a
  OBVIOUS

\* A call of the caller's, and a context that is wiped.
LEMMA CallStep ==
  ASSUME IInv, Update \/ Cleanup
  PROVE  IInv'
<1>1. /\ pc = "idle" /\ inl = 0 /\ out + inl = given /\ out # Garbled
      /\ out \in Nat /\ given \in Nat /\ BufferInv
  BY DEF Update, Cleanup, IInv, UpdateInv, TypeOK
<1>2. CASE Update
  <2>1. /\ pc' = "drain" /\ inl' \in Nat /\ given' = given + inl'
        /\ UNCHANGED <<stream, c0, ctr, ks, used, out>>
    BY <1>2, ContextAssumption DEF Update
  <2>2. TypeOK'
    <3>1. given + inl' \in Nat
      BY <1>1, <2>1, MoreIsNat
    <3> QED BY <2>1, <3>1 DEF TypeOK, IInv
  <2>3. UpdateInv'
    BY <1>1, <2>1 DEF UpdateInv
  <2>4. BufferInv'
    BY <1>1, <2>1, BufferAfter DEF BufferInv
  <2> QED BY <2>2, <2>3, <2>4 DEF IInv
<1>3. CASE Cleanup
  <2>1. /\ pc' = "clear" /\ ctr' = 0 /\ used' = 0
        /\ ks' = [of |-> 0, block |-> 0]
        /\ UNCHANGED <<stream, c0, inl, given, out>>
    BY <1>3 DEF Cleanup
  <2>2. TypeOK'
    BY <2>1, CounterSpaceAssumption DEF TypeOK, IInv
  <2>3. UpdateInv'
    BY <1>1, <2>1 DEF UpdateInv
  <2> QED BY <2>1, <2>2, <2>3 DEF IInv
<1> QED BY <1>2, <1>3

\* Every step keeps the invariant.
LEMMA InvariantStep ==
  ASSUME IInv, [Next]_vars
  PROVE  IInv'
<1>1. CASE UNCHANGED vars
  BY <1>1 DEF vars, IInv, TypeOK, UpdateInv, BufferInv, Current, BlockAt
<1>2. CASE Next
  BY <1>2, DrainStep, WholeStep, PartialStep, InitContextStep, CallStep DEF Next
<1> QED BY <1>1, <1>2

\* An uninitialised context satisfies it.
LEMMA InvariantInit ==
  ASSUME Init
  PROVE  IInv
<1>1. TypeOK
  BY CounterSpaceAssumption DEF Init, TypeOK
<1> QED BY <1>1 DEF Init, IInv, UpdateInv, Garbled

\* For updates of any length in any order and any width of the counter: between
\* the steps of CRYPTO_chacha_20_update the counter is that of the first block
\* not buffered, and what is left of the buffered block comes next.
THEOREM ContextInvariant == Spec => []IInv
<1> QED BY InvariantInit, InvariantStep, PTL DEF Spec

\* No update encrypts more than it was given or reads past the buffered block.
THEOREM ContextTypeOK == Spec => []TypeOK
<1>1. IInv => TypeOK
  BY DEF IInv
<1> QED BY <1>1, ContextInvariant, PTL

\* However a stream is split into updates, every byte is xored with its own
\* byte of the keystream.
THEOREM ContextStreamInOrder == Spec => []StreamInOrder
<1>1. IInv => StreamInOrder
  BY DEF IInv, UpdateInv, StreamInOrder
<1> QED BY <1>1, ContextInvariant, PTL

\* Every step of the context is a step of one stream of bytes, or none: the
\* safety part of ImplementsStream, for all constants.
THEOREM ContextRefinesStream == Spec => Stream!Init /\ [][Stream!Next]_(Stream!vars)
<1>1. Init => Stream!Init
  BY DEF Init, Stream!Init
<1>2. IInv /\ [Next]_vars => [Stream!Next]_(Stream!vars)
  <2> SUFFICES ASSUME IInv, [Next]_vars
               PROVE  [Stream!Next]_(Stream!vars)
    OBVIOUS
  <2>1. out \in Nat /\ inl \in Nat /\ given \in Nat /\ out + inl = given
    BY StateFacts
  <2>2. pc \in {"clear", "idle"} => given = out
    BY <2>1 DEF IInv, UpdateInv
  <2>3. CASE InitContext
    BY <2>2, <2>3 DEF InitContext, Stream!Next, Stream!Start
  <2>4. CASE Update
    <3>1. inl' \in Nat /\ given' = given + inl' /\ out' = out /\ given = out
      BY <2>2, <2>4, ContextAssumption DEF Update
    <3>2. given + inl' \in Nat /\ given + inl' >= given
      BY <2>1, <3>1, MoreIsNat
    <3> QED BY <3>1, <3>2 DEF Stream!Next, Stream!Give
  <2>5. CASE Drain \/ Whole \/ Partial
    <3>1. out' \in out .. given /\ given' = given
      BY <2>5, DrainStep, WholeStep, PartialStep DEF Drain, Whole, Partial
    <3>2. out' = out \/ out' \in out + 1 .. given
      BY <2>1, <3>1
    <3> QED BY <3>1, <3>2 DEF Stream!Next, Stream!Produce, Stream!vars
  <2>6. CASE Cleanup \/ UNCHANGED vars
    BY <2>6 DEF Cleanup, vars, Stream!vars
  <2> QED BY <2>3, <2>4, <2>5, <2>6 DEF Next
<1> QED BY <1>1, <1>2, ContextInvariant, PTL DEF Spec
=============================================================================
