----------------------------- MODULE AeadRecord -----------------------------
(***************************************************************************)
(* What one call of chacha20_poly1305_seal_512 or _open_512 promises,      *)
(* whatever its schedule: the record is encrypted or decrypted once, front *)
(* to back; the ciphertext is authenticated once, front to back, and only  *)
(* while it exists: seal authenticates what it has already produced, and   *)
(* an in-place open overwrites only what it has already authenticated.     *)
(* The tag comes last.                                                     *)
(***************************************************************************)
EXTENDS Integers

VARIABLES
  mode,      \* "seal", "open" (disjoint buffers) or "open_inplace"
  len,       \* bytes of the record
  crypted,   \* bytes encrypted or decrypted so far
  authed,    \* ciphertext bytes authenticated so far
  finished   \* the tag has been written

vars == <<mode, len, crypted, authed, finished>>

Init ==
  /\ mode \in {"seal", "open", "open_inplace"}
  /\ len \in Nat
  /\ crypted = 0
  /\ authed = 0
  /\ finished = FALSE

\* Ciphertext bytes up to `to' may be authenticated, once done are encrypted.
MayAuthenticate(to, done) ==
  /\ mode = "seal" => to <= done
  /\ mode = "open_inplace" => done <= authed

\* Bytes up to `to' may be written, once `hashed' are authenticated.
MayWrite(to, hashed) == mode = "open_inplace" => to <= hashed

Progress(c, a) ==
  /\ ~finished
  /\ crypted' = c
  /\ authed' = a
  /\ UNCHANGED <<mode, len, finished>>

Authenticate ==
  /\ authed' \in authed + 1 .. len
  /\ MayAuthenticate(authed', crypted)
  /\ Progress(crypted, authed')

Crypt ==
  /\ crypted' \in crypted + 1 .. len
  /\ MayWrite(crypted', authed)
  /\ Progress(crypted', authed)

\* Finish may absorb what is left and the length block in one call.
Finish ==
  /\ ~finished
  /\ crypted = len
  /\ authed' = len
  /\ authed < len => MayAuthenticate(len, crypted)
  /\ finished' = TRUE
  /\ UNCHANGED <<mode, len, crypted>>

Next == Authenticate \/ Crypt \/ Finish

Spec == Init /\ [][Next]_vars /\ WF_vars(Next)
=============================================================================
