--------------------------- MODULE SessionCrypto ---------------------------
(***************************************************************************)
(* The cryptographic operations of crypto_utils.py, protocol.py and        *)
(* handshake.py as terms.  A signature, a hash, a derived key and a        *)
(* ciphertext is the tuple or record of everything that went into it, so   *)
(* two of them are equal exactly when their inputs are: keys are           *)
(* unguessable, SHA-256 is collision free and AES-GCM authenticates.       *)
(***************************************************************************)
EXTENDS Integers, Sequences

\* Identity.sign and ed25519_verify: an identity is named by its fingerprint.
Sign(fp, data) == <<"sig", fp, data>>
Ed25519Verify(fp, sig, data) == sig = Sign(fp, data)

Sha256(data) == <<"sha256", data>>

----------------------------------------------------------------------------
(***************************************************************************)
(* protocol.py: the envelope.  "id" is left out of the envelopes whose id  *)
(* nobody reads; TRANSFER_START carries it in its body.                    *)
(***************************************************************************)
SignedTypes == {"HELLO", "CONTACT_REQUEST", "CONTACT_ACCEPT", "HANDSHAKE_INIT",
                "HANDSHAKE_RESP", "KEY_ROTATE_NOTICE", "TRANSFER_START"}

BuildEnvelope(fp, type, payload) ==
  [type |-> type, from |-> fp, payload |-> payload,
   sig |-> IF type \in SignedTypes THEN Sign(fp, <<type, fp, payload>>) ELSE <<>>]

VerifyEnvelope(env, fp) ==
  \/ env.type \notin SignedTypes
  \/ Ed25519Verify(fp, env.sig, <<env.type, env.from, env.payload>>)

\* canonical_manifest: what the owner of a file signs when sharing it.
CanonicalManifest(fileId, owner, sha) == <<"manifest", fileId, owner, sha>>

----------------------------------------------------------------------------
(***************************************************************************)
(* handshake.py and SessionKeys.derive.  X25519 gives both ends the same   *)
(* secret and XOR is symmetric, so both are sets of their two arguments.   *)
(***************************************************************************)
Transcript(initFp, respFp, initEph, respEph, initNonce, respNonce) ==
  <<"CISC468-HANDSHAKE-V1", initFp, respFp, initEph, respEph, initNonce, respNonce>>

Exchange(priv, peerPub) == {priv, peerPub}

\* Mutant: both ends take the initiator's view.
DeriveUnswapped(secret, initNonce, respNonce, initFp, respFp, isInitiator) ==
  LET label(l) == <<"hkdf", secret, {initNonce, respNonce}, initFp, respFp, l>>
  IN  [tx_key |-> label("TX"), rx_key |-> label("RX"),
       tx_nonce |-> label("NTX"), rx_nonce |-> label("NRX")]

Derive(secret, initNonce, respNonce, initFp, respFp, isInitiator) ==
  LET label(l) == <<"hkdf", secret, {initNonce, respNonce}, initFp, respFp, l>>
  IN  IF isInitiator
      THEN [tx_key |-> label("TX"), rx_key |-> label("RX"),
            tx_nonce |-> label("NTX"), rx_nonce |-> label("NRX")]
      ELSE [tx_key |-> label("RX"), rx_key |-> label("TX"),
            tx_nonce |-> label("NRX"), rx_nonce |-> label("NTX")]

----------------------------------------------------------------------------
\* Mutant: the base itself for every chunk.
ChunkNonceFixed(base, idx) == <<base, 0>>

(***************************************************************************)
(* AES-GCM per chunk.  XOR of the index into the last eight bytes of one   *)
(* base gives different nonces for different indices below 2^64; XOR into  *)
(* different bases is left free, as their keys differ.                     *)
(***************************************************************************)
ChunkNonce(base, idx) == <<base, idx>>

Aad(fileId, idx, total, messageId) == <<fileId, idx, total, messageId>>

EncryptChunk(key, base, idx, data, fileId, total, messageId) ==
  [key |-> key, nonce |-> ChunkNonce(base, idx), data |-> data,
   aad |-> Aad(fileId, idx, total, messageId)]

\* decrypt_chunk raises InvalidTag unless key, nonce and aad are the sender's.
Decrypts(ct, key, base, idx, fileId, total, messageId) ==
  /\ ct.key = key
  /\ ct.nonce = ChunkNonce(base, idx)
  /\ ct.aad = Aad(fileId, idx, total, messageId)
============================================================================
