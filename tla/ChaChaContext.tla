--------------------------- MODULE ChaChaContext ----------------------------
(***************************************************************************)
(* The streaming ChaCha20 context of src/chacha20poly1305.c: a counter, a  *)
(* buffered keystream block and how much of it is used.  An update drains  *)
(* the buffer, encrypts whole blocks with one kernel call, and buffers one *)
(* more block for what is left.                                            *)
(*                                                                         *)
(* The kernel call writes the blocks of consecutive counters from the one  *)
(* it is given and leaves that one alone: ChaChaKernels, KeystreamInOrder, *)
(* StreamComplete and CallerCounterKept.                                   *)
(***************************************************************************)
EXTENDS FusedKernels

CONSTANTS
  Lengths,        \* numbers of bytes given to an update
  FirstCounters,  \* counters a stream may start from
  MaxBytes,       \* bound: bytes given to one stream
  MaxStreams      \* bound: streams begun on the context

ASSUME ContextAssumption ==
  /\ Lengths \subseteq Nat /\ FirstCounters \subseteq 0 .. CounterSpace - 1
  /\ MaxBytes \in Nat /\ MaxStreams \in Nat

VARIABLES
  pc,             \* "clear", "idle" between calls, or where an update is
  stream, c0,     \* number of inits so far, counter given to the last
  ctr,            \* ctx->ctr[0]
  ks,             \* the block in ctx->ks: of which stream, which counter
  used,           \* ctx->ks_used
  inl,            \* in_len: bytes of the update still to encrypt
  given,          \* bytes given to the updates of this stream
  out             \* bytes of the stream encrypted, a prefix, or Garbled

vars == <<pc, stream, c0, ctr, ks, used, inl, given, out>>

\* A context nobody has initialised.
Init ==
  /\ pc = "clear"
  /\ stream = 0 /\ c0 = 0 /\ ctr = 0 /\ used = 0
  /\ ks = [of |-> 0, block |-> 0]
  /\ inl = 0 /\ given = 0 /\ out = 0

\* Counter of the block at offset n of the stream.
BlockAt(n) == AdvanceCounter(c0, n \div 64)

\* n bytes more, xored with block b of a stream from its byte `from' on.
Xored(n, b, from) ==
  IF n = 0 THEN out
  ELSE IF out # Garbled /\ out % 64 = from /\ b = [of |-> stream, block |-> BlockAt(out)]
  THEN out + n
  ELSE Garbled

Current(c) == [of |-> stream, block |-> c]

\* Fault: the buffered block is not marked used up.
InitKeepsBuffer ==
  /\ pc \in {"clear", "idle"} /\ stream < MaxStreams
  /\ stream' = stream + 1
  /\ c0' \in FirstCounters /\ ctr' = c0'
  /\ given' = 0 /\ out' = 0
  /\ pc' = "idle"
  /\ UNCHANGED <<ks, inl, used>>

\* CRYPTO_chacha_20_init: what is in ks stays there.
InitContext ==
  /\ pc \in {"clear", "idle"} /\ stream < MaxStreams
  /\ stream' = stream + 1
  /\ c0' \in FirstCounters /\ ctr' = c0'
  /\ used' = 64
  /\ given' = 0 /\ out' = 0
  /\ pc' = "idle"
  /\ UNCHANGED <<ks, inl>>

\* CRYPTO_chacha_20_update
Update ==
  /\ pc = "idle" /\ pc' = "drain"
  /\ inl' \in Lengths
  /\ given' = given + inl' /\ given' <= MaxBytes
  /\ UNCHANGED <<stream, c0, ctr, ks, used, out>>

\* Fault: the loop tests the buffer only, not what is left of the update.
DrainWholeBuffer ==
  /\ pc = "drain" /\ pc' = "whole"
  /\ LET n == 64 - used
     IN /\ out' = Xored(n, ks, used)
        /\ used' = used + n
        /\ inl' = inl - n
  /\ UNCHANGED <<stream, c0, ctr, ks, given>>

\* The bytes of the buffered block that are left, or as many as are wanted.
Drain ==
  /\ pc = "drain" /\ pc' = "whole"
  /\ LET n == IF inl <= 64 - used THEN inl ELSE 64 - used
     IN /\ out' = Xored(n, ks, used)
        /\ used' = used + n
        /\ inl' = inl - n
  /\ UNCHANGED <<stream, c0, ctr, ks, given>>

\* Fault: the counter is moved as if the rest were a block as well.
WholeRoundsUp ==
  /\ pc = "whole" /\ pc' = "partial"
  /\ LET n == 64 * (inl \div 64)
     IN /\ out' = Xored(n, Current(ctr), 0)
        /\ ctr' = AdvanceCounter(ctr, (inl + 63) \div 64)
        /\ inl' = inl - n
  /\ UNCHANGED <<stream, c0, ks, used, given>>

\* Whole blocks, straight from the kernel.
Whole ==
  /\ pc = "whole" /\ pc' = "partial"
  /\ LET n == 64 * (inl \div 64)
     IN /\ out' = Xored(n, Current(ctr), 0)
        /\ ctr' = AdvanceCounter(ctr, n \div 64)
        /\ inl' = inl - n
  /\ UNCHANGED <<stream, c0, ks, used, given>>

\* Fault: the rest is only encrypted if a whole block came before it.
PartialAfterWholeOnly ==
  /\ pc = "partial" /\ pc' = "idle"
  /\ inl' = 0
  /\ IF inl = 0 \/ out < 64 THEN UNCHANGED <<out, ctr, ks, used>>
     ELSE /\ ks' = Current(ctr)
          /\ ctr' = AdvanceCounter(ctr, 1)
          /\ out' = Xored(inl, ks', 0)
          /\ used' = inl
  /\ UNCHANGED <<stream, c0, given>>

\* One more block in the buffer for what is left.
Partial ==
  /\ pc = "partial" /\ pc' = "idle"
  /\ inl' = 0
  /\ IF inl = 0 THEN UNCHANGED <<out, ctr, ks, used>>
     ELSE /\ ks' = Current(ctr)
          /\ ctr' = AdvanceCounter(ctr, 1)
          /\ out' = Xored(inl, ks', 0)
          /\ used' = inl
  /\ UNCHANGED <<stream, c0, given>>

\* CRYPTO_chacha_20_cleanup: zeros everywhere, and so a buffer of 64 bytes that
\* are no keystream.  Only an init may follow.
Cleanup ==
  /\ pc = "idle" /\ pc' = "clear"
  /\ ctr' = 0 /\ used' = 0
  /\ ks' = [of |-> 0, block |-> 0]
  /\ UNCHANGED <<stream, c0, inl, given, out>>

Next == InitContext \/ Update \/ Drain \/ Whole \/ Partial \/ Cleanup

\* An update does not stop half way; when the next call comes is the caller's.
Spec == Init /\ [][Next]_vars /\ WF_vars(Drain \/ Whole \/ Partial)

-----------------------------------------------------------------------------
(***************************************************************************)
(* Properties.                                                             *)
(***************************************************************************)

\* The state is well formed: in particular an update never encrypts more than
\* it was given and never reads past the buffered block.
TypeOK ==
  /\ pc \in {"clear", "idle", "drain", "whole", "partial"}
  /\ stream \in Nat
  /\ {c0, ctr} \subseteq 0 .. CounterSpace - 1
  /\ ks \in [of: Nat, block: 0 .. CounterSpace - 1]
  /\ used \in 0 .. 64
  /\ inl \in Nat /\ given \in Nat
  /\ out \in Nat \cup {Garbled}

\* However the bytes are split into updates, the one at offset n is xored with
\* byte n of the keystream of this stream: never with what an earlier stream
\* left in ks, nor one block early or late, across the wrap of the counter too.
StreamInOrder == out # Garbled

Stream == INSTANCE CipherStream WITH produced <- out

\* The updates of a stream are one stream: every byte given comes out, once.
ImplementsStream == Stream!Spec

-----------------------------------------------------------------------------
(***************************************************************************)
(* The inductive invariant.                                                *)
(***************************************************************************)

\* The counter is that of the first block not buffered yet; the rest of the
\* buffered block is what the stream needs next.
BufferInv ==
  /\ used < 64 => /\ out % 64 = used /\ used > 0
                  /\ ks = Current(BlockAt(out))
                  /\ ctr = AdvanceCounter(BlockAt(out), 1)
  /\ used = 64 => out % 64 = 0 /\ ctr = BlockAt(out)

\* Where an update stands.
UpdateInv ==
  /\ out # Garbled /\ out + inl = given
  /\ pc \in {"clear", "idle"} => inl = 0
  /\ pc \in {"whole", "partial"} /\ inl > 0 => used = 64
  /\ pc = "partial" => inl < 64

IInv == TypeOK /\ UpdateInv /\ (pc # "clear" => BufferInv)
=============================================================================
