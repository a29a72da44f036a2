-------------------------------- MODULE Passwords --------------------------------
(***************************************************************************)
(* The password handshake of src/network-mysqld-proto.c.                   *)
(*                                                                         *)
(* SHA1 is a constructor without collisions: a digest is the set of terms  *)
(* whose XOR it is, so that a term cancels itself.                         *)
(***************************************************************************)
EXTENDS Integers, Sequences

SHA1(x) == {<<"SHA1", x>>}
XOR(a, b) == (a \ b) \cup (b \ a)

password_hash(password) == SHA1(password)

\* A challenge of 21 bytes ends in the NUL that splits it from the plugin name.
Challenge20(challenge) == IF Len(challenge) = 21 THEN SubSeq(challenge, 1, 20) ELSE challenge

\* Mutant: the challenge is left out.
ScrambleAlone(challenge, hashed_password) ==
    XOR(SHA1(<<<<>>, SHA1(hashed_password)>>), hashed_password)

password_scramble(challenge, hashed_password) ==
    XOR(SHA1(<<Challenge20(challenge), SHA1(hashed_password)>>), hashed_password)

password_unscramble(challenge, response, double_hashed) ==
    XOR(response, SHA1(<<challenge, double_hashed>>))

password_check(challenge, response, double_hashed) ==
    /\ Len(challenge) \in {20, 21}
    /\ password_hash(password_unscramble(Challenge20(challenge), response, double_hashed))
         = double_hashed
=============================================================================
