------------------------- MODULE ShadowsocksStream -------------------------
(***************************************************************************)
(* The Shadowsocks tunnel of a Core (relay/shadowsocks.py): the client's   *)
(* stream of sealed chunks reaches it in WebSocket messages that are cut   *)
(* anywhere, a link is found by trying its key on what came so far, and the*)
(* pump then decrypts as it is fed.  A chunk is a sealed length and a      *)
(* sealed payload, each under the next nonce; the sender's bytes are       *)
(* counted in halves of these parts, so that a message may end inside one. *)
(***************************************************************************)
EXTENDS Integers, Sequences

CONSTANTS
  MaxChunks,  \* bound: chunks the client sends
  MaxReads    \* bound: reads from the upstream

ShadowsocksStreamAssumption == MaxChunks \in Nat /\ MaxReads \in Nat

VARIABLES
  sent,      \* halves that the client's messages have carried
  tunnel,    \* [at, found, why]: where the handler is, whether it knows the
             \* link, and how it ended
  cut,       \* halves already removed from _buf
  keyed,     \* the salt was read: dec_aead is set
  decNonce,
  upstream,  \* numbers of the chunks written to the TCP connection
  todoChunks,\* chunks of the handshake still to be written
  encNonce,
  reply      \* the chunks sent back: [size, salt, nonce] of each

ssVars == <<sent, tunnel, cut, keyed, decNonce, upstream, todoChunks, encNonce, reply>>

(* Where the salt, and the length and the payload of chunk k, end.         *)
LengthEnd(k) == 4 * k
PayloadEnd(k) == 4 * k + 2

At(pc) == tunnel.at = pc
Ends(why) == tunnel' = [tunnel EXCEPT !.at = "closed", !.why = why]

SsInit ==
  /\ sent = 0 /\ cut = 0 /\ keyed = FALSE /\ decNonce = 0
  /\ tunnel = [at |-> "handshake", found |-> FALSE, why |-> "none"]
  /\ upstream = <<>> /\ todoChunks = 0 /\ encNonce = 0 /\ reply = <<>>

(* Chunks that a fresh decoder yields from the first n halves, the halves  *)
(* it removes and the nonce it is left with.                               *)
Whole(n) == IF n < 2 THEN 0 ELSE (n - 2) \div 4
CutAt(n) == IF n < 2 THEN 0 ELSE PayloadEnd(Whole(n))

(* Mutant of NonceAt: the nonces of the handshake are forgotten.           *)
NonceAtZero(n) == 0

(* The length of a chunk takes its nonce before the payload is there.      *)
NonceAt(n) == 2 * Whole(n) + (IF n >= LengthEnd(Whole(n) + 1) THEN 1 ELSE 0)

(* A message of the handshake: each allowed link is tried with a decoder of*)
(* its own on all that came.  Only the key of the client's link fits, if it*)
(* is allowed at that moment, and it is the link once it yields a chunk.   *)
Handshake(n, allowed) ==
  /\ At("handshake") /\ n \in 1..(PayloadEnd(MaxChunks) - sent)
  /\ sent' = sent + n
  /\ IF allowed /\ Whole(sent') > 0
     THEN /\ tunnel' = [tunnel EXCEPT !.at = "admit", !.found = TRUE]
          /\ cut' = CutAt(sent') /\ keyed' = TRUE /\ decNonce' = NonceAt(sent')
          /\ todoChunks' = Whole(sent')
     ELSE UNCHANGED <<tunnel, cut, keyed, decNonce, todoChunks>>
  /\ UNCHANGED <<upstream, encNonce, reply>>

(* ws_handshake_timeout, or more than 64 KiB that no key fits.             *)
HandshakeEnds ==
  /\ At("handshake") /\ Ends("handshake")
  /\ UNCHANGED <<sent, cut, keyed, decNonce, upstream, todoChunks, encNonce, reply>>

(* The limit of addresses, the target address at the head of the first     *)
(* chunk, the quota of what came and the connection to the target.         *)
Admit(ok) ==
  /\ At("admit")
  /\ IF ok THEN tunnel' = [tunnel EXCEPT !.at = "first"] ELSE Ends("refused")
  /\ UNCHANGED <<sent, cut, keyed, decNonce, upstream, todoChunks, encNonce, reply>>

(* The chunks of the handshake are written before the pumps start.         *)
WriteFirst ==
  /\ At("first")
  /\ upstream' = [k \in 1..todoChunks |-> k]
  /\ todoChunks' = 0
  /\ tunnel' = [tunnel EXCEPT !.at = "pumping"]
  /\ UNCHANGED <<sent, cut, keyed, decNonce, encNonce, reply>>

(* pump_decrypt_to_tcp: a message is fed to the decoder.                   *)
Feed(n) ==
  /\ At("pumping") /\ n \in 1..(PayloadEnd(MaxChunks) - sent)
  /\ sent' = sent + n
  /\ tunnel' = [tunnel EXCEPT !.at = "decrypting"]
  /\ UNCHANGED <<cut, keyed, decNonce, upstream, todoChunks, encNonce, reply>>

(* One round of try_decrypt_chunks, for the chunk that follows the cut.    *)
(* With a length and no payload yet it returns: the nonce has moved on and *)
(* the length is still in the buffer.                                      *)
DecryptNext(ok) ==
  LET k == cut \div 4 + 1
  IN /\ At("decrypting")
     /\ \/ /\ sent < LengthEnd(k)
           /\ tunnel' = [tunnel EXCEPT !.at = "pumping"]
           /\ UNCHANGED <<cut, decNonce, upstream>>
        \/ /\ sent >= LengthEnd(k) /\ decNonce # 2 * (k - 1)
           /\ Ends("bad aead frame")
           /\ UNCHANGED <<cut, decNonce, upstream>>
        \/ /\ sent \in LengthEnd(k)..(PayloadEnd(k) - 1) /\ decNonce = 2 * (k - 1)
           /\ decNonce' = decNonce + 1
           /\ tunnel' = [tunnel EXCEPT !.at = "pumping"]
           /\ UNCHANGED <<cut, upstream>>
        \/ /\ sent >= PayloadEnd(k) /\ decNonce = 2 * (k - 1)
           /\ decNonce' = decNonce + 2 /\ cut' = PayloadEnd(k)
           /\ IF ok THEN upstream' = Append(upstream, k) /\ UNCHANGED tunnel
              ELSE Ends("quota") /\ UNCHANGED upstream
     /\ UNCHANGED <<sent, keyed, todoChunks, encNonce, reply>>

Sizes == {"small", "large", "huge"}   \* to 0x3FFF, to 0xFFFF, above
Pumping == {"pumping", "decrypting"}

(* encrypt_chunk: what one read returned, up to relay_buf, is one chunk.   *)
(* The length of a huge one does not fit its two bytes: the pump ends.     *)
EncryptToWs(size) ==
  /\ tunnel.at \in Pumping /\ Len(reply) < MaxReads
  /\ IF size = "huge"
     THEN Ends("pump error") /\ UNCHANGED <<encNonce, reply>>
     ELSE /\ reply' = Append(reply, [size |-> size, salt |-> reply = <<>>, nonce |-> encNonce])
          /\ encNonce' = encNonce + 2
          /\ UNCHANGED tunnel
  /\ UNCHANGED <<sent, cut, keyed, decNonce, upstream, todoChunks>>

(* Either side disconnects.                                                *)
SsHangUp ==
  /\ tunnel.at \in Pumping /\ Ends("hang up")
  /\ UNCHANGED <<sent, cut, keyed, decNonce, upstream, todoChunks, encNonce, reply>>

-----------------------------------------------------------------------------
(* What the target gets is the client's stream: every chunk up to some one,*)
(* once and in order, whichever way the messages cut it, and those of the  *)
(* handshake before those of the pump; and no chunk before the link is     *)
(* found and admitted.  The client can read the answer as it comes: the    *)
(* salt once and first, each nonce used for one part only.                 *)
StreamIsIntact ==
  /\ upstream = [k \in 1..Len(upstream) |-> k]
  /\ upstream # <<>> => tunnel.found /\ PayloadEnd(Len(upstream)) <= sent
  /\ At("pumping") /\ decNonce % 2 = 0 => Len(upstream) = Whole(sent)
  /\ \A i \in DOMAIN reply : reply[i].nonce = 2 * (i - 1) /\ (reply[i].salt <=> i = 1)

(* A stream is refused as badly framed only when a message ended between   *)
(* the length and the payload of a chunk.                                  *)
MisfedOnlyInside ==
  tunnel.why = "bad aead frame" => decNonce % 2 = 1

SsTypeOK ==
  /\ sent \in 0..PayloadEnd(MaxChunks) /\ cut <= sent
  /\ tunnel.at \in {"handshake", "admit", "first", "pumping", "decrypting", "closed"}
  /\ cut # 0 => keyed

ShadowsocksHolds == SsTypeOK /\ StreamIsIntact /\ MisfedOnlyInside

(* The decoder is a streaming one (shadowsocks.py:57, "Streaming AEAD chunk*)
(* codec"): an authentic stream is read however it is cut into messages.   *)
SplitsAreRead == tunnel.why # "bad aead frame"
=============================================================================
