------------------------------ MODULE Envelope ------------------------------
(***************************************************************************)
(* The cryptography of the C++ client as CryptoContext composes it: HPKE   *)
(* in Mode_Auth for messages and the wrapped key of the keystore.  The     *)
(* primitives of libsodium are symbolic.  A key pair is one value, which   *)
(* stands for both halves; a hash is the tuple of its inputs, so different *)
(* inputs give different hashes; a ciphertext is the record of what it was *)
(* made from and opens for the same key, nonce and associated data.  What  *)
(* may fail returns a set, empty when the code throws.                     *)
(***************************************************************************)

(* X25519: either side computes the same secret.                           *)
Dh(sk, pk) == {sk, pk}

(* HKDF: the message or info string is labelled with the protocol version, *)
(* which is always the same, the suite, and a label.                       *)
HkdfExtract(salt, ikm) == <<salt, ikm>>

HkdfExpand(prk, info) == <<prk, info>>

LabeledExtract(suite, salt, label, ikm) == HkdfExtract(salt, <<suite, label, ikm>>)

LabeledExpand(suite, prk, label, info) == HkdfExpand(prk, <<suite, label, info>>)

ExtractAndExpand(secrets, context) ==
  LabeledExpand("KEM", LabeledExtract("KEM", <<>>, "eae_prk", secrets),
                "shared_secret", context)

(* The sender's half, with an ephemeral key, and the recipient's.          *)
AuthEncap(pkR, skS, skE) ==
  ExtractAndExpand(<<Dh(skE, pkR), Dh(skS, pkR)>>, <<skE, pkR, skS>>)

AuthDecap(enc, skR, pkS) ==
  ExtractAndExpand(<<Dh(skR, enc), Dh(skR, pkS)>>, <<enc, skR, pkS>>)

(* Mode_Auth, without a PSK: its parts of the context are constants.       *)
KeyScheduleAuth(sharedSecret, info) ==
  LET context == LabeledExtract("HPKE", <<>>, "info_hash", info)
      secret  == LabeledExtract("HPKE", sharedSecret, "secret", <<>>)
  IN [key |-> LabeledExpand("HPKE", secret, "key", context),
      base_nonce |-> LabeledExpand("HPKE", secret, "base_nonce", context)]

(* ChaCha20-Poly1305 and XChaCha20-Poly1305.                               *)
AeadEncrypt(ctx, aad, plaintext) == [ctx |-> ctx, aad |-> aad, plaintext |-> plaintext]

AeadDecrypt(ctx, aad, ciphertext) ==
  IF ciphertext.ctx = ctx /\ ciphertext.aad = aad THEN {ciphertext.plaintext} ELSE {}

-----------------------------------------------------------------------------
SealAuth(pkR, skS, skE, info, aad, plaintext) ==
  [enc |-> skE,
   ciphertext |-> AeadEncrypt(KeyScheduleAuth(AuthEncap(pkR, skS, skE), info),
                              aad, plaintext)]

OpenAuth(enc, skR, pkS, info, aad, ciphertext) ==
  AeadDecrypt(KeyScheduleAuth(AuthDecap(enc, skR, pkS), info), aad, ciphertext)

(* The secret key at rest, under a key derived from the password.          *)
DeriveKek(password, salt) == <<password, salt>>

WrapKey(sk, nonce, kek) ==
  [nonce |-> nonce,
   ciphertext |-> AeadEncrypt([key |-> kek, base_nonce |-> nonce],
                              "eternal-blue-kek-v1", sk)]

UnwrapKey(wrapped, kek) ==
  AeadDecrypt([key |-> kek, base_nonce |-> wrapped.nonce],
              "eternal-blue-kek-v1", wrapped.ciphertext)
=============================================================================
