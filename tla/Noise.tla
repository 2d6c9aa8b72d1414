------------------------------- MODULE Noise --------------------------------
(***************************************************************************)
(* The channel between the two ends of one connection: Noise XX and the    *)
(* transport ciphers it leaves behind, or the plaintext handshake.         *)
(* Cryptography is symbolic: what travels is a text with the key, the      *)
(* nonce and the associated data it was sealed with, a shared secret is    *)
(* the set of the two private keys, and a hash is the sequence of what     *)
(* went into it.  Under Noise frames may be damaged, lost or repeated.     *)
(***************************************************************************)
EXTENDS Naturals, Sequences

CONSTANTS
    Protocols,      \* protocol names the two ends may be configured with
    Data,           \* what an end sends after the handshake, in this order
    MaxFrameFaults  \* bound: frames damaged, lost or repeated

VARIABLES
    ends,           \* the two ends
    wires,          \* wires[s]: the frames on the way to s
    mishaps         \* what happened to frames

noiseVars == <<ends, wires, mishaps>>

Sides == {"initiator", "responder"}
Peer(s) == IF s = "initiator" THEN "responder" ELSE "initiator"

-----------------------------------------------------------------------------
(* Texts, keys and the AEAD.                                               *)

NoKey == [ck |-> <<>>, i |-> 0]
Plain(x) == [key |-> NoKey, nonce |-> 0, ad |-> <<>>, plain |-> x]
Damaged == [Plain("damaged") EXCEPT !.key.i = 9]
Failed == "decrypt failed"
Nothing == "nothing"      \* no key yet; the empty payload

(* What an end sends is a sequence, of anything but the mark of a failure. *)
ASSUME NoiseAssumption ==
    /\ Data \in Seq({Data[i] : i \in 1..Len(Data)} \ {Failed})
    /\ MaxFrameFaults \in Nat

(* The public key is named like the private one.                           *)
StaticOf(s) == IF s = "initiator" THEN "s1" ELSE "s2"
EphemeralOf(s) == IF s = "initiator" THEN "e1" ELSE "e2"
rats_curve25519_donna(mine, theirs) == {mine, theirs}

rats_noise_hkdf_2(ck, input) == LET out == Append(ck, input) IN <<[ck |-> out, i |-> 1], [ck |-> out, i |-> 2]>>

rats_chachapoly_encrypt(key, nonce, ad, x) == [key |-> key, nonce |-> nonce, ad |-> ad, plain |-> x]
rats_chachapoly_decrypt(key, nonce, ad, c) == IF c = rats_chachapoly_encrypt(key, nonce, ad, c.plain) THEN c.plain ELSE Failed

Cipher(key) == [key |-> key, nonce |-> 0]          \* initialize_key
has_key(c) == c.key # NoKey

(* Mutant: the nonce is not counted.                                       *)
CountedNever(c) == c
Counted(c) == [c EXCEPT !.nonce = @ + 1]

(* encrypt_with_ad, decrypt_with_ad: without a key the text passes.        *)
encrypt_with_ad(c, ad, x) == IF has_key(c) THEN rats_chachapoly_encrypt(c.key, c.nonce, ad, x) ELSE Plain(x)
decrypt_with_ad(c, ad, t) == IF has_key(c) THEN rats_chachapoly_decrypt(c.key, c.nonce, ad, t) ELSE t.plain
Used(c) == IF has_key(c) THEN Counted(c) ELSE c

-----------------------------------------------------------------------------
(* SymmetricState: h, ck and the cipher, as fields of the handshake.       *)

mix_hash(st, t) == [st EXCEPT !.h = Append(@, t)]
mix_key(st, input) == LET out == rats_noise_hkdf_2(st.ck, input) IN [st EXCEPT !.ck = out[1].ck, !.cipher = Cipher(out[2])]
mix_dh(st, mine, theirs) == mix_key(st, rats_curve25519_donna(mine, theirs))

Sealed(st, x) == encrypt_with_ad(st.cipher, st.h, x)
encrypt_and_hash(st, x) == mix_hash([st EXCEPT !.cipher = Used(@)], Sealed(st, x))
Opened(st, t) == decrypt_with_ad(st.cipher, st.h, t)
decrypt_and_hash(st, t) == mix_hash([st EXCEPT !.cipher = Used(@)], t)

(* initialize: the protocol name, then the prologue, empty or not.         *)
initialize(s, protocol) ==
    [initiator |-> s = "initiator", index |-> 0, complete |-> FALSE, h |-> <<Plain("Noise_XX"), Plain(protocol)>>,
     ck |-> <<>>, cipher |-> Cipher(NoKey), s |-> StaticOf(s), e |-> EphemeralOf(s), re |-> Nothing, rs |-> Nothing]

write_e(st) == mix_hash(st, Plain(st.e))
write_s(st) == encrypt_and_hash(st, st.s)
read_e(st, t) == mix_hash([st EXCEPT !.re = t.plain], t)
read_s(st, t) == decrypt_and_hash([st EXCEPT !.rs = Opened(st, t)], t)

(* write_message: the tokens of this end's turn, then the empty payload.   *)
(* Out of turn there are no tokens.                                        *)
Tokens(st) ==
    IF st.initiator /\ st.index = 0 THEN [st |-> write_e(st), texts |-> <<Plain(st.e)>>]
    ELSE IF st.initiator /\ st.index = 2
    THEN [st |-> [mix_dh(write_s(st), st.s, st.re) EXCEPT !.complete = TRUE], texts |-> <<Sealed(st, st.s)>>]
    ELSE IF ~st.initiator /\ st.index = 1
    THEN LET ee == mix_dh(write_e(st), st.e, st.re)
         IN [st |-> mix_dh(write_s(ee), st.s, st.re), texts |-> <<Plain(st.e), Sealed(ee, st.s)>>]
    ELSE [st |-> st, texts |-> <<>>]

write_message(st) ==
    LET t == Tokens(st)
    IN [st |-> [encrypt_and_hash(t.st, Nothing) EXCEPT !.index = @ + 1], message |-> Append(t.texts, Sealed(t.st, Nothing))]

(* se at the responder: its ephemeral key and the static one just read.    *)
(* Mutant: its own static key instead.                                     *)
SeWithStatic(st) == mix_dh(st, st.s, st.rs)
Se(st) == mix_dh(st, st.e, st.rs)

(* read_message: the tokens expected now; a message cut otherwise does not *)
(* decrypt.                                                                *)
Expected(st) == IF st.initiator THEN (IF st.index = 1 THEN 3 ELSE 1) ELSE IF st.index \in {0, 2} THEN 2 ELSE 1
ReadTokens(st, m) ==
    IF st.initiator /\ st.index = 1
    THEN LET e == read_e(st, m[1])
             s == read_s(mix_dh(e, e.e, e.re), m[2])
         IN mix_dh(s, s.e, s.rs)
    ELSE IF ~st.initiator /\ st.index = 0 THEN read_e(st, m[1])
    ELSE IF ~st.initiator /\ st.index = 2 THEN [Se(read_s(st, m[1])) EXCEPT !.complete = TRUE]
    ELSE st

read_message(st, m) ==
    IF Len(m) # Expected(st) THEN [ok |-> FALSE, st |-> st]
    ELSE LET t == ReadTokens(st, m)
         IN [ok |-> t.rs # Failed /\ Opened(t, m[Len(m)]) # Failed, st |-> [decrypt_and_hash(t, m[Len(m)]) EXCEPT !.index = @ + 1]]

(* split: the initiator sends with the first key, the responder with the   *)
(* second.                                                                 *)
SplitAlike(st) == LET k == rats_noise_hkdf_2(st.ck, {}) IN [send |-> Cipher(k[1]), recv |-> Cipher(k[2])]
split(st) ==
    LET k == rats_noise_hkdf_2(st.ck, {})
    IN IF st.initiator THEN [send |-> Cipher(k[1]), recv |-> Cipher(k[2])] ELSE [send |-> Cipher(k[2]), recv |-> Cipher(k[1])]

-----------------------------------------------------------------------------
(* The two ends: NoiseHandshaker, then the session it hands over.          *)

End(s, protocol, secure) ==
    [hs |-> initialize(s, protocol), protocol |-> protocol, secure |-> secure, state |-> IF s = "initiator" THEN "start" ELSE "handshake",
     send |-> Cipher(NoKey), recv |-> Cipher(NoKey), sent |-> 0, got |-> <<>>]

NoiseInit ==
    /\ ends \in {[s \in Sides |-> End(s, IF s = "initiator" THEN p ELSE q, secure)] : p, q \in Protocols, secure \in BOOLEAN}
    /\ wires = [s \in Sides |-> <<>>] /\ mishaps = 0

(* Once complete, the handshake is given up for the two ciphers.           *)
Ready(end) == [end EXCEPT !.state = "ready", !.send = split(end.hs).send, !.recv = split(end.hs).recv]
AfterStep(end) == IF end.hs.complete THEN Ready(end) ELSE end

HandshakeStart ==
    /\ ends["initiator"].state = "start" /\ ends["initiator"].secure
    /\ LET w == write_message(ends["initiator"].hs)
       IN /\ ends' = [ends EXCEPT !["initiator"].hs = w.st, !["initiator"].state = "handshake"]
          /\ wires' = [wires EXCEPT !["responder"] = Append(@, w.message)]

(* A frame that does not decrypt closes the connection.                    *)
Closed(s) ==
    /\ ends' = [ends EXCEPT ![s].state = "closed"]
    /\ wires' = [w \in Sides |-> <<>>]

(* consume: the message is read; unless that ended the handshake, one is   *)
(* written.                                                                *)
Consume(s) ==
    /\ ends[s].state = "handshake" /\ wires[s] # <<>> /\ ends[s].secure
    /\ LET r == read_message(ends[s].hs, Head(wires[s]))
           w == write_message(r.st)
       IN IF ~r.ok THEN Closed(s)
          ELSE IF r.st.complete
          THEN /\ ends' = [ends EXCEPT ![s] = AfterStep([@ EXCEPT !.hs = r.st])]
               /\ wires' = [wires EXCEPT ![s] = Tail(@)]
          ELSE /\ ends' = [ends EXCEPT ![s] = AfterStep([@ EXCEPT !.hs = w.st])]
               /\ wires' = [wires EXCEPT ![s] = Tail(@), ![Peer(s)] = Append(@, w.message)]

(* Plaintext: one message each with the protocol and the id, the responder *)
(* answering; another protocol is refused.  Texts then pass without a key. *)
append_message(end) == <<Plain(end.protocol), Plain(end.hs.s)>>
PlainStart ==
    /\ ends["initiator"].state = "start" /\ ~ends["initiator"].secure
    /\ ends' = [ends EXCEPT !["initiator"].state = "handshake"]
    /\ wires' = [wires EXCEPT !["responder"] = Append(@, append_message(ends["initiator"]))]

PlainConsume(s) ==
    /\ ends[s].state = "handshake" /\ wires[s] # <<>> /\ ~ends[s].secure
    /\ LET m == Head(wires[s])
           reply == IF s = "responder" THEN <<append_message(ends[s])>> ELSE <<>>
       IN IF m[1] # Plain(ends[s].protocol) THEN Closed(s)
          ELSE /\ ends' = [ends EXCEPT ![s].state = "ready", ![s].hs.rs = m[2].plain]
               /\ wires' = [wires EXCEPT ![s] = Tail(@), ![Peer(s)] = @ \o reply]

Encrypt(s) ==
    /\ ends[s].state = "ready" /\ ends[s].sent < Len(Data) /\ ends[Peer(s)].state # "closed"
    /\ ends' = [ends EXCEPT ![s].sent = @ + 1, ![s].send = Used(@)]
    /\ wires' = [wires EXCEPT ![Peer(s)] = Append(@, <<encrypt_with_ad(ends[s].send, <<>>, Data[ends[s].sent + 1])>>)]

Decrypt(s) ==
    /\ ends[s].state = "ready" /\ wires[s] # <<>>
    /\ LET m == Head(wires[s])
           x == decrypt_with_ad(ends[s].recv, <<>>, m[Len(m)])
       IN IF x = Failed THEN Closed(s)
          ELSE /\ ends' = [ends EXCEPT ![s].recv = Used(@), ![s].got = Append(@, x)]
               /\ wires' = [wires EXCEPT ![s] = Tail(@)]

(* What may happen to a frame on the way.                                  *)
Mishap(s) ==
    /\ wires[s] # <<>> /\ mishaps < MaxFrameFaults /\ ends[s].secure
    /\ mishaps' = mishaps + 1
    /\ \/ wires' = [wires EXCEPT ![s] = <<[Head(@) EXCEPT ![Len(Head(@))] = Damaged]>> \o Tail(@)]
       \/ wires' = [wires EXCEPT ![s] = Tail(@)]
       \/ wires' = [wires EXCEPT ![s] = <<Head(@)>> \o @]
    /\ UNCHANGED ends

NoiseNext ==
    \/ (HandshakeStart \/ PlainStart \/ \E s \in Sides : Consume(s) \/ PlainConsume(s) \/ Encrypt(s) \/ Decrypt(s)) /\ UNCHANGED mishaps
    \/ \E s \in Sides : Mishap(s)

NoiseSpec == NoiseInit /\ [][NoiseNext]_noiseVars

-----------------------------------------------------------------------------
(* An end that is ready talks to the holder of the key it saw, of the same *)
(* protocol; two that are ready hold each other's ciphers and one hash.    *)
Authentic ==
    /\ \A s \in Sides : ends[s].state = "ready" => /\ ends[s].hs.rs = StaticOf(Peer(s))
                                                   /\ ends[s].protocol = ends[Peer(s)].protocol
    /\ (\A s \in Sides : ends[s].state = "ready") =>
          /\ \A s \in Sides : ends[s].send.key = ends[Peer(s)].recv.key
          /\ ends["initiator"].secure => ends["initiator"].send.key # ends["responder"].send.key
          /\ ends["initiator"].hs.h = ends["responder"].hs.h

(* What an end got is what the other sent, in order, without gaps.         *)
ReadInOrder == \A s \in Sides : ends[s].got = SubSeq(Data, 1, Len(ends[s].got)) /\ Len(ends[s].got) <= ends[Peer(s)].sent

(* Undisturbed, two ends of one protocol become ready and all arrives; of  *)
(* two protocols neither does.                                             *)
Undisturbed ==
    mishaps = 0 /\ wires = [s \in Sides |-> <<>>] /\ ends["initiator"].state # "start"
    => \A s \in Sides : IF ends[s].protocol = ends[Peer(s)].protocol
                        THEN ends[s].state = "ready" /\ Len(ends[s].got) = ends[Peer(s)].sent
                        ELSE ends[s].state # "ready"

(* The Noise XX handshake and the session after it: whatever happens to    *)
(* frames, the ends agree on who they are, on the protocol and on the keys,*)
(* and data arrives in order or the connection closes.                     *)
SecureChannel == Authentic /\ ReadInOrder /\ Undisturbed

=============================================================================
