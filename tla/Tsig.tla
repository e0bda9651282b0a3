-------------------------------- MODULE Tsig ---------------------------------
(***************************************************************************)
(* Signed messages (protocol/tsig.cpp).  The MAC is not computed over the  *)
(* bytes that came in but over the decoded message, encoded again.         *)
(*                                                                         *)
(* HMAC-SHA256 is external: two MACs are equal if and only if the secrets  *)
(* and what was hashed are.  A key is [name, secret].                      *)
(***************************************************************************)
EXTENDS Codec, Integers

CONSTANTS
  TsigKeys,   \* the server's keys, a sequence
  Fudge       \* seconds a signature is good for, before and after: 300

ASSUME TsigAssumption == TsigKeys \in Seq([name : Seq(STRING), secret : STRING]) /\ Fudge \in Nat

HmacSha256(secret, data) == [secret |-> secret, data |-> data]

\* What is hashed: the message without its TSIG record, and the fields of that
\* record but the MAC.
MacInput(msg, key, time, fudge) ==
  [wire |-> EncodeMessage([msg EXCEPT !.tsig = << >>], 0), name |-> key.name,
   time |-> time, fudge |-> fudge]

\* signMessage, at a time.
SignMessage(msg, key, time, fudge) ==
  LET mac == HmacSha256(key.secret, MacInput(msg, key, time, fudge))
  IN  [msg EXCEPT !.tsig =
         <<[name |-> key.name, type |-> "TSIG", time |-> time, fudge |-> fudge, mac |-> mac]>>]

\* The distance of two times, both unsigned in the code.
Apart(s, t) == IF s > t THEN s - t ELSE t - s

VerifyMessageSigned(msg, key, now) ==
  /\ msg.tsig # << >>
  /\ LET tsig == msg.tsig[1]
     IN  /\ Apart(now, tsig.time) <= tsig.fudge
         /\ tsig.mac = HmacSha256(key.secret,
              [wire |-> EncodeMessage(msg, 0), name |-> key.name, time |-> tsig.time, fudge |-> tsig.fudge])

\* verifyMessage, at a time.
VerifyMessage(msg, key, now) ==
  /\ msg.tsig # << >>
  /\ LET tsig == msg.tsig[1]
     IN  /\ Apart(now, tsig.time) <= tsig.fudge
         /\ tsig.mac = HmacSha256(key.secret, MacInput(msg, key, tsig.time, tsig.fudge))

\* tsigKey: the first key of that name.
TsigKey(name) ==
  LET named == {i \in DOMAIN TsigKeys : TsigKeys[i].name = name}
  IN  IF named = {} THEN << >> ELSE <<TsigKeys[Min(named)]>>

\* What handleAxfr and handleUpdate ask of a request that has a TSIG record.
Authentic(msg, now) ==
  LET keys == TsigKey(msg.tsig[1].name)
  IN  keys # << >> /\ VerifyMessage(msg, keys[1], now)

=============================================================================
