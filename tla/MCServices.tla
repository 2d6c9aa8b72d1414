----------------------------- MODULE MCServices -----------------------------
(***************************************************************************)
(* The services beside the peer layer for TLC, one part at a time: the     *)
(* part is chosen initially and the variables of the others do not change. *)
(***************************************************************************)
EXTENDS FileTransfer, TypedMessages, BtClient, Tracker, Noise, TLC

CONSTANTS
    Parts,
    Worlds, Homed, MaxFailedDials                   \* of PeerExchange

VARIABLES
    part,
    stun,                   \* Stun
    tx, rx, stream,         \* Buffers
    object, text,           \* Json; text also bencode
    draft,                  \* TorrentFile
    net                     \* PeerExchange

NameLength(t) == IF t = "long" THEN 3 ELSE 1
Udp(t) == t = "udp"
Said == {-1, 0, 1, 9}
TwoMessages == <<"d1", "d2">>

(* A directory whose files need several chunks, none, and a short one.     *)
Sender == <<"a">>
Receiver == <<"b">>
FirstId == <<1>>
Directory == <<<<3, 0, 1>>>>

S == INSTANCE Stun WITH Servers <- 2, Numbers <- 2, MaxRetransmissions <- 2, Rto <- 1,
        TotalTimeout <- 4, RtoCap <- 2, MaxNat <- 1

B == INSTANCE Buffers WITH kScratchCapacity <- 2, kMaxRecycledCapacity <- 2, kMinCapacity <- 2,
        kAllocGranularity <- 2, kUsageAverage <- 2, OwnedSizes <- {3}, CopiedSizes <- {1, 2},
        Reads <- {1, 4}, MaxSlices <- 2, MaxGather <- 3, MaxBytes <- 4, MaxStreams <- 2, IdleTicks <- 5

(* Keys 1, 2 and 4 collide at some size of the index.                      *)
KeyHash(k) == CASE k = 1 -> 0 [] k = 2 -> 11 [] k = 3 -> 8 [] k = 4 -> 7 [] OTHER -> 3
JsonChunks(alphabet) ==
    CASE alphabet = "doc" -> {<<"{">>, <<"}">>, <<"[">>, <<"]">>, <<",">>, <<"quote", "a", "quote", ":">>,
                              <<"quote", "b", "quote", ":">>, <<"1">>, <<" ">>, <<"null">>}
      [] alphabet = "string" -> {<<"quote">>, <<"\\">>, <<"n">>, <<"u">>, <<"h0001">>, <<"high">>, <<"low">>,
                                 <<"NL">>, <<"\\", "u">>}
      [] OTHER -> {<<"-">>, <<"0">>, <<"1">>, <<"9">>, <<".">>, <<"e">>, <<"+">>, <<"e", "-", "9">>}
J == INSTANCE Json WITH Keys <- 1..5, Hash <- KeyHash, kIndexThreshold <- 2, MinCapacity <- 4, IntBits <- 5,
        kMaxDepth <- 1, Alphabets <- {"string", "number", "doc"}, ChunksOf <- JsonChunks, MaxChunks <- 5

F == INSTANCE TorrentFile WITH IntBits <- 6, SizeBits <- 8, kMaxDepth <- 5, InfoKey <- <<1007>>,
        FileSizes <- {0, 1, 3}, MaxFiles <- 2, PieceLengths <- {0, 2}, NameChars <- {97, 46, 38}, MaxName <- 2,
        Trackers <- {<<97>>, <<98, 38>>}, BitsPerByte <- 2

(* Two peers a hub dialed; two that dialed the hub from a port that        *)
(* answers; two that dialed it from a port nobody listens on; and two      *)
(* peers of which each may ask the other again.                            *)
DialedOut == [start |-> {<<1, 2>>, <<1, 3>>}, answers |-> FALSE, pulls |-> 0]
DialedIn == [start |-> {<<2, 1>>, <<3, 1>>}, answers |-> TRUE, pulls |-> 0]
DialedInPlain == [DialedIn EXCEPT !.answers = FALSE]
AskAgain == [start |-> {<<1, 2>>, <<2, 1>>}, answers |-> TRUE, pulls |-> 2]
Reachable == {DialedOut, DialedIn, AskAgain}
Ephemeral == {DialedInPlain}
X == INSTANCE PeerExchange WITH Nodes <- {1, 2, 3}, public_only <- FALSE, request_max <- 2,
        max_addresses_per_response <- 2, max_recent_dials <- 2, kMaxAddresses <- 2, kMaxAddressesPerPeer <- 4

-----------------------------------------------------------------------------
On(p, A) == part = p /\ A

(* The bytes a bencoded text is put together of.                           *)
ByteChunks(alphabet) ==
    IF alphabet = "bytes" THEN {<<100>>, <<108>>, <<101>>, <<105, 48, 101>>, <<49, 58, 1007>>, <<49, 58, 98>>, <<48>>, <<97>>}
    ELSE {<<105>>, <<45>>, <<48>>, <<49>>, <<50>>, <<101>>, <<54>>}
TypeByte ==
    /\ ~text.read /\ text.chunks < 5
    /\ \E c \in ByteChunks(text.alphabet) : text' = [text EXCEPT !.chunks = @ + 1, !.chars = @ \o c]
ReadBytes == ~text.read /\ text' = [text EXCEPT !.read = TRUE]

Idle == <<>>
MCInit ==
    /\ part \in Parts
    /\ Init /\ TypedInit /\ ClientInit /\ TrackerInit
    /\ NoiseInit /\ (part # "noise" => \A s \in Sides : ends[s] = End(s, "p", TRUE))
    /\ IF part = "stun" THEN S!StunInit ELSE stun = Idle
    /\ IF part = "buffers" THEN B!BuffersInit ELSE tx = Idle /\ rx = Idle /\ stream = Idle
    /\ IF part = "exchange" THEN X!ExchangeInit ELSE net = Idle
    /\ IF part = "torrentfile" THEN F!TorrentFileInit ELSE draft = Idle
    /\ IF part \in {"object", "text"} THEN J!JsonInit ELSE object = J!EmptyObject
    /\ part = "bencode" => text \in {[alphabet |-> a, chunks |-> 0, chars |-> <<>>, read |-> FALSE] : a \in {"bytes", "digits"}}
    /\ part \notin {"object", "text", "bencode"} => text = Idle
    /\ part = "object" => text.alphabet = "doc"

bufferVars == <<tx, rx, stream>>
fileVars == <<object, text, draft>>
mcVars == <<part, vars, typed, bt, ann, noiseVars, stun, bufferVars, fileVars, net>>

MCNext ==
    /\ UNCHANGED part
    /\ \/ On("transfer", Next) /\ UNCHANGED <<typed, bt, ann, noiseVars, stun, bufferVars, fileVars, net>>
       \/ On("typed", TypedNext) /\ UNCHANGED <<vars, bt, ann, noiseVars, stun, bufferVars, fileVars, net>>
       \/ On("client", ClientNext) /\ UNCHANGED <<vars, typed, ann, noiseVars, stun, bufferVars, fileVars, net>>
       \/ On("tracker", TrackerNext) /\ UNCHANGED <<vars, typed, bt, noiseVars, stun, bufferVars, fileVars, net>>
       \/ On("noise", NoiseNext) /\ UNCHANGED <<vars, typed, bt, ann, stun, bufferVars, fileVars, net>>
       \/ On("stun", S!StunNext) /\ UNCHANGED <<vars, typed, bt, ann, noiseVars, bufferVars, fileVars, net>>
       \/ On("buffers", B!BuffersNext) /\ UNCHANGED <<vars, typed, bt, ann, noiseVars, stun, fileVars, net>>
       \/ On("exchange", X!ExchangeNext) /\ UNCHANGED <<vars, typed, bt, ann, noiseVars, stun, bufferVars, fileVars>>
       \/ On("object", J!Edit) /\ UNCHANGED <<vars, typed, bt, ann, noiseVars, stun, bufferVars, draft, net>>
       \/ On("text", J!Type \/ J!Read) /\ UNCHANGED <<vars, typed, bt, ann, noiseVars, stun, bufferVars, draft, net>>
       \/ On("bencode", TypeByte \/ ReadBytes) /\ UNCHANGED <<vars, typed, bt, ann, noiseVars, stun, bufferVars, object, draft, net>>
       \/ On("torrentfile", F!AddSource \/ F!generate) /\ UNCHANGED <<vars, typed, bt, ann, noiseVars, stun, bufferVars, object, text, net>>

MCSpec == MCInit /\ [][MCNext]_mcVars

-----------------------------------------------------------------------------
(* The properties of the parts that are instances.                         *)

(* An answer is taken by the question it answers: a tracker's by its       *)
(* announce, with a cadence in bounds and no thread left behind stop(); a  *)
(* STUN server's by its request, so that the address told is one we were   *)
(* seen under since we asked.                                              *)
AnswersAreOurs == AnnounceSound /\ (part = "stun" => S!ReflexiveIsOurs)

(* Send and receive buffers hand on the bytes of a stream in order, across *)
(* compaction, growth, recycling and reuse; silence gives memory back.     *)
BuffersSound == part = "buffers" => B!StreamIntact /\ B!SilenceGivesBack

(* The hash index of a JSON object finds what is there and only that,      *)
(* whatever was put and erased before; and what parse() reads from a text  *)
(* is, dumped and parsed again, the same value.                            *)
JsonSound ==
    [][/\ part = "object" => J!IndexSound
       /\ part = "text" /\ text'.read /\ ~text.read => J!RoundTrip(text.chars)]_<<object, text>>

(* A torrent made of any files reads back as those files, and its magnet   *)
(* link and resume record name it; a bencoded text has one reading, which  *)
(* the walks that only measure it agree with, and a block of metadata      *)
(* arrives as it was sent.                                                 *)
TorrentReadsBack ==
    [][/\ part = "torrentfile" /\ draft'.made /\ ~draft.made => F!TorrentRoundTrip
       /\ part = "bencode" /\ text'.read /\ ~text.read => F!OneReading(text.chars) /\ F!BlockArrives(text.chars)]_<<draft, text>>

(* Two nodes that a third is connected to learn of each other through it   *)
(* and end up connected.                                                   *)
TrianglesClose == part = "exchange" => X!TrianglesClose

=============================================================================
