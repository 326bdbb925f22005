---------------------------- MODULE ZnxKeystore ----------------------------
(***************************************************************************)
(* The keystores of znx-wallet: a key under a password, with its address   *)
(* in the clear and as associated data of the cipher.  An authenticated    *)
(* cipher opens with the password and the data it was sealed with, or not  *)
(* at all; salts and nonces are left out.                                  *)
(***************************************************************************)
NoKey == "no key"

(* Keystore::create; to_json and from_json lose nothing of it.             *)
CreateKeystore(key, password) ==
  [address |-> key, public_key |-> key,
   ciphertext |-> [secret |-> key, password |-> password, aad |-> key]]

(* Keystore::decrypt: the key, or NoKey.                                   *)
Decrypt(keystore, password) ==
  IF /\ keystore.ciphertext.password = password
     /\ keystore.ciphertext.aad = keystore.address
     /\ keystore.ciphertext.secret = keystore.public_key
  THEN keystore.ciphertext.secret
  ELSE NoKey
=============================================================================
