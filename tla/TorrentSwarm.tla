---- MODULE TorrentSwarm ----
(***************************************************************************)
(* A torrent serving its peers: who is unchoked, and the way of a request  *)
(* from a peer to the block it gets.  The upload half of class Torrent     *)
(* (bittorrent/torrent.cpp) with class Choker (choker.cpp).                *)
(*                                                                         *)
(* Time goes in windows of ten seconds: the tick recomputes the unchoked   *)
(* set at the end of each and moves the optimistic slot every third.  The  *)
(* score of a peer is what it gave us in the window (what we gave it, when *)
(* seeding), up to MaxScore.                                               *)
(*                                                                         *)
(* The extension protocol of a torrent (bittorrent/torrent.cpp 598-780,    *)
(* with the messages of extensions.cpp): fetching the metadata of a magnet *)
(* from the peers (ut_metadata), and telling each peer which others are in *)
(* the swarm (ut_pex).  Two machines, each with its own variable.          *)
(***************************************************************************)
EXTENDS Integers, Sequences, FiniteSets, SequencesExt, FiniteSetsExt

CONSTANTS Leechers,      \* the connections
          Slots,         \* Choker::slots_
          MaxScore,      \* bound: blocks counted in a window
          MaxChanges     \* bound: times peers come, go or change their interest

VARIABLE up
  \* ring       peers_, in order
  \* keen       peer_interested_
  \* choked     am_choking_
  \* score      recent_up_ / recent_down_ of the current window
  \* optimistic optimistic_, or Nobody
  \* window     tick_count_ / 10, modulo 3
  \* reads      blocks being read from disk for a peer
  \* changes    the bound's counter

Nobody == "nobody"
Keen(s) == SelectSeq(s.ring, LAMBDA c : c \in s.keen)

\* Choker::select: the best scores, in order of arrival among equals, and the
\* optimistic peer on top of them.
select(s) ==
  LET cand == Keen(s)
      Ahead(i, j) == \/ s.score[cand[i]] > s.score[cand[j]]
                     \/ s.score[cand[i]] = s.score[cand[j]] /\ i < j
      rank(i) == Cardinality({j \in DOMAIN cand : Ahead(j, i)})
  IN  {cand[i] : i \in {i \in DOMAIN cand : rank(i) < Slots}} \cup ({s.optimistic} \ {Nobody})

recompute_choker(s) == [s EXCEPT !.choked = ToSet(s.ring) \ select(s)]

\* Always the first of the interested peers.
rotate_to_first(s) ==
  IF Keen(s) = <<>> THEN [s EXCEPT !.optimistic = Nobody]
  ELSE recompute_choker([s EXCEPT !.optimistic = Keen(s)[1]])

rotate_optimistic(s) ==
  LET cand == Keen(s)
      at   == {i \in DOMAIN cand : cand[i] = s.optimistic}
      next == IF at = {} THEN 1 ELSE 1 + (Min(at) % Len(cand))
  IN  IF cand = <<>> THEN [s EXCEPT !.optimistic = Nobody]
      ELSE recompute_choker([s EXCEPT !.optimistic = cand[next]])

----------------------------------------------------------------------------

UploadInit ==
  up = [ring |-> <<>>, keen |-> {}, choked |-> {}, score |-> [c \in Leechers |-> 0],
        optimistic |-> Nobody, window |-> 0, reads |-> {}, changes |-> 0]

Changed(s) == [s EXCEPT !.changes = @ + 1]
MayChange == up.changes < MaxChanges
InRing(c) == c \in ToSet(up.ring)

\* on_handshake: a new peer is choked and not interested.
Arrives(c) ==
  /\ MayChange /\ ~InRing(c)
  /\ up' = Changed([up EXCEPT !.ring = Append(@, c), !.choked = @ \cup {c}])

\* on_closed: everything kept about the peer goes, but the reads in flight.
Departs(c) ==
  /\ MayChange /\ InRing(c)
  /\ up' = Changed([up EXCEPT !.ring = SelectSeq(@, LAMBDA d : d # c),
                              !.keen = @ \ {c}, !.choked = @ \ {c}, !.score[c] = 0,
                              !.optimistic = IF @ = c THEN Nobody ELSE @])

on_interest(c) ==
  /\ MayChange /\ InRing(c)
  /\ up' = recompute_choker(Changed([up EXCEPT
             !.keen = IF c \in @ THEN @ \ {c} ELSE @ \cup {c}]))

\* on_request: a peer we choke is not served.
on_request(c) ==
  /\ InRing(c) /\ c \in up.keen \ up.choked
  /\ up' = [up EXCEPT !.reads = @ \cup {c}]

\* The block is read: it is sent if the peer is still there, choked or not.
ReadDone(c) ==
  /\ c \in up.reads
  /\ up' = [up EXCEPT !.reads = @ \ {c},
                      !.score[c] = IF InRing(c) THEN Min({@ + 1, MaxScore}) ELSE @]

\* The tick at the end of a window.
WindowEnds ==
  LET w == (up.window + 1) % 3
      r == IF w = 0 THEN rotate_optimistic(up) ELSE up
  IN  up' = [recompute_choker(r) EXCEPT !.window = w, !.score = [c \in Leechers |-> 0]]

UploadNext ==
  \/ \E c \in Leechers : Arrives(c) \/ Departs(c) \/ on_interest(c) \/ on_request(c) \/ ReadDone(c)
  \/ WindowEnds

----------------------------------------------------------------------------
\* EveryoneGetsATurn: a peer that stays interested is unchoked again and
\* again, however well the others score and whoever came and went before: the
\* optimistic slot goes round ("so a newcomer ... still gets a chance",
\* torrent.cpp 543-557), without the interest of the others changing for ever.
EveryoneGetsATurn ==
  \A c \in Leechers : (<>[](InRing(c) /\ c \in up.keen)) => []<>(c \in ToSet(up.ring) \ up.choked)

----------------------------------------------------------------------------
(* The extension protocol.                                                  *)

CONSTANTS Mates,         \* the connections
          Faithful,      \* the ones that have the metadata, stay and answer
          MetaPieces,    \* metadata_pieces_ of the true size
          MaxWrong,      \* bound: wrong or refused answers
          Endpoint,      \* the address others can dial a connection's peer at
          IPv4,          \* the endpoints with an IPv4 address
          Dialed,        \* the connections that are outgoing
          PexGap,        \* ticks between two PEX messages to a peer (60)
          MaxSwarm       \* bound: times a peer comes or goes

VARIABLES meta, pex

----------------------------------------------------------------------------
(* Metadata.  size is metadata_size_ (0: unknown), got the slices filled    *)
(* with right or wrong bytes (metadata_have_, metadata_buf_), ext the peers *)
(* whose extended handshake came, asked the slices a peer was asked for.    *)

Slices == 1..MetaPieces

Magnet ==
  [peers |-> Mates, size |-> 0, got |-> [p \in Slices |-> "none"], has |-> FALSE,
   ext |-> {}, asked |-> [c \in Mates |-> {}], state |-> "Metadata", wrong |-> 0]

Fetched == [Magnet EXCEPT !.has = TRUE, !.state = "Downloading"]
MetaInit == meta = Magnet

ensure_metadata_buffer(s) == [s EXCEPT !.size = IF @ = 0 THEN MetaPieces ELSE @]

request_metadata(s, c) ==
  IF s.has \/ s.size = 0 \/ c \notin s.ext THEN s
  ELSE [s EXCEPT !.asked[c] = @ \cup {p \in Slices : s.got[p] = "none"}]

request_of_all(s) ==
  [s EXCEPT !.asked = [c \in Mates |-> IF c \in s.peers THEN request_metadata(s, c).asked[c] ELSE @[c]]]

\* A failed verification starts over without asking anybody.
try_complete_quietly(s) ==
  IF \A p \in Slices : s.got[p] = "right"
  THEN [s EXCEPT !.has = TRUE, !.state = "Downloading"]
  ELSE [s EXCEPT !.got = [p \in Slices |-> "none"]]

\* set_metadata checks the SHA-1; promote_to_downloading follows.
try_complete_metadata(s) ==
  IF \A p \in Slices : s.got[p] = "right"
  THEN [s EXCEPT !.has = TRUE, !.state = "Downloading"]
  ELSE request_of_all([s EXCEPT !.got = [p \in Slices |-> "none"]])

on_metadata_piece(s, p, bytes) ==
  LET t == [ensure_metadata_buffer(s) EXCEPT !.got[p] = bytes] IN
  IF s.has \/ s.got[p] # "none" THEN s
  ELSE IF \A q \in Slices : t.got[q] # "none" THEN try_complete_metadata(t) ELSE t

handle_ext_handshake(c) ==
  /\ c \in meta.peers \ meta.ext
  /\ LET t == [meta EXCEPT !.ext = @ \cup {c}]
     IN  meta' = IF t.has THEN t ELSE request_metadata(ensure_metadata_buffer(t), c)

\* The answer to a request: data (wrong from some), or a reject, which is
\* not followed up.
handle_ut_metadata(c) ==
  \E p \in meta.asked[c], ans \in {"right", "wrong", "reject"} :
    /\ c \in meta.peers
    /\ ans # "right" => c \notin Faithful /\ meta.wrong < MaxWrong
    /\ LET t == [meta EXCEPT !.asked[c] = @ \ {p},
                             !.wrong = IF ans = "right" THEN @ ELSE @ + 1]
       IN  meta' = IF ans = "reject" THEN t ELSE on_metadata_piece(t, p, ans)

MateLeaves(c) ==
  /\ c \in meta.peers \ Faithful
  /\ meta' = [meta EXCEPT !.peers = @ \ {c}, !.ext = @ \ {c}, !.asked[c] = {}]

MetaNext ==
  \E c \in Mates : handle_ext_handshake(c) \/ handle_ut_metadata(c) \/ MateLeaves(c)

\* MetadataArrives: with one peer that has the metadata, stays and answers,
\* it is fetched, although others send wrong slices, refuse or leave in
\* between: a failed verification asks every peer again (torrent.cpp 693-699).
MetadataArrives == <>(meta.state = "Downloading")

----------------------------------------------------------------------------
(* Peer exchange.  sent is pex_sent_ (kept per connection as endpoints),    *)
(* since the ticks since the last message (pex_last_tick_; PexGap: none     *)
(* yet, or long enough), told what the remote has been told and not untold. *)

PexInit ==
  pex = [peers |-> {}, ext |-> {}, sent |-> [c \in Mates |-> {}],
         since |-> [c \in Mates |-> PexGap], told |-> [c \in Mates |-> {}], moves |-> 0]

\* Outgoing: we dialed its listen port.  Incoming: it has to tell us the port.
dialable(s, c) == c \in Dialed \/ c \in s.ext

Current(s, c) == {Endpoint[d] : d \in {d \in s.peers \ {c} : dialable(s, d)}}

\* encode_pex leaves out what is not IPv4.
Send(s, c) ==
  LET added   == Current(s, c) \ s.sent[c]
      dropped == s.sent[c] \ Current(s, c)
  IN  [sent |-> Current(s, c),
       since |-> IF added \cup dropped = {} THEN s.since[c] ELSE 0,
       told |-> (s.told[c] \cup (added \cap IPv4)) \ (dropped \cap IPv4)]

Due(s, c) == c \in s.peers \cap s.ext /\ s.since[c] >= PexGap

\* What was sent is recorded although the gap has not passed.
send_pex_recorded(s) ==
  [s EXCEPT !.sent = [c \in Mates |-> IF c \in s.peers \cap s.ext THEN Send(s, c).sent ELSE @[c]],
            !.since = [c \in Mates |-> IF Due(s, c) THEN Send(s, c).since ELSE @[c]],
            !.told = [c \in Mates |-> IF Due(s, c) THEN Send(s, c).told ELSE @[c]]]

send_pex(s) ==
  [s EXCEPT !.sent = [c \in Mates |-> IF Due(s, c) THEN Send(s, c).sent ELSE @[c]],
            !.since = [c \in Mates |-> IF Due(s, c) THEN Send(s, c).since ELSE @[c]],
            !.told = [c \in Mates |-> IF Due(s, c) THEN Send(s, c).told ELSE @[c]]]

PexTick ==
  LET older == [pex EXCEPT !.since = [c \in Mates |-> Min({@[c] + 1, PexGap})]]
  IN  pex' = send_pex(older)

MateComes(c) ==
  /\ c \notin pex.peers /\ pex.moves < MaxSwarm
  /\ pex' = [pex EXCEPT !.peers = @ \cup {c}, !.moves = @ + 1]

MateTellsPort(c) ==
  c \in pex.peers \ pex.ext /\ pex' = [pex EXCEPT !.ext = @ \cup {c}]

\* on_closed forgets what was sent, remove_peer the rest.
MateGoes(c) ==
  /\ c \in pex.peers /\ pex.moves < MaxSwarm
  /\ pex' = [pex EXCEPT !.peers = @ \ {c}, !.ext = @ \ {c}, !.sent[c] = {},
                        !.since[c] = PexGap, !.told[c] = {}, !.moves = @ + 1]

PexNext ==
  \/ PexTick
  \/ \E c \in Mates : MateComes(c) \/ MateTellsPort(c) \/ MateGoes(c)

\* PexSettles: once peers stop coming and going, every peer that speaks PEX
\* comes to know exactly the IPv4 endpoints of the others that can be dialed:
\* the differences sent to it, however they were held back by the gap, add up
\* (send_pex, torrent.cpp 739-780).
PexSettles ==
  \A c \in Mates :
    []<>(\/ c \notin pex.peers \cap pex.ext
         \/ pex.told[c] = Current(pex, c) \cap IPv4)
====
