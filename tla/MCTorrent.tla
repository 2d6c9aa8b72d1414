---- MODULE MCTorrent ----
(***************************************************************************)
(* The BitTorrent modules for TLC, one part at a time: the part is chosen  *)
(* initially and the variables of the others stay as they start.           *)
(***************************************************************************)
EXTENDS Torrent, TorrentSwarm, PickerCalls

CONSTANTS Parts, m1, m2, m3, e1, e2    \* connections and endpoints of the swarm
VARIABLES part

\* Two of the three connections lead to the same endpoint.
Endpoints == [c \in {m1, m2, m3} |-> IF c = m2 THEN e2 ELSE e1]

vars == <<part, tor, up, meta, pex, pickerVars>>

On(p, A) == part = p /\ A

Init ==
  /\ part \in Parts
  /\ PickerInit /\ (part # "picker" => mode = "RarestFirst")
  /\ IF part = "download" THEN TorrentInit ELSE tor = [start({}) EXCEPT !.run = FALSE]
  /\ IF part = "metadata" THEN MetaInit ELSE meta = Fetched
  /\ UploadInit /\ PexInit

Next ==
  /\ UNCHANGED part
  /\ \/ On("picker", PickerNext) /\ UNCHANGED <<tor, up, meta, pex>>
     \/ On("download", TorrentNext) /\ UNCHANGED <<up, meta, pex, pickerVars>>
     \/ On("upload", UploadNext) /\ UNCHANGED <<tor, meta, pex, pickerVars>>
     \/ On("metadata", MetaNext) /\ UNCHANGED <<tor, up, pex, pickerVars>>
     \/ On("pex", PexNext) /\ UNCHANGED <<tor, up, meta, pickerVars>>

\* The reactor and the disk threads go on, the tick comes, and the honest
\* peers connect, introduce themselves, unchoke us and answer: weak fairness
\* of those steps, said by what they do to the state.
DownloadFairness ==
  /\ WF_tor(On("download", DiskRuns))
  /\ []<>(tor.post = <<>>) \/ []<><<Len(tor'.post) < Len(tor.post)>>_tor
  /\ []<>(\A c \in DOMAIN tor.rt : tor.rt[c] = "recent" \/ Out(tor, c) = 0 \/ tor.paused)
  /\ \A c \in Honest :
       /\ []<>(tor.conn[c].open # "no" \/ ~tor.run)
       /\ []<>(~Open(tor, c) \/ (tor.conn[c].begun /\ ~tor.conn[c].choking))
       /\ \/ []<>(\A pb \in Blocks : tor.rq[c][pb] = 0)
          \/ []<><<\E pb \in Blocks : tor'.rq[c][pb] < tor.rq[c][pb]>>_tor

\* Time goes on: the windows of the upload tick follow each other.
UploadFairness == \A w \in {0, 1} : []<>(part # "upload" \/ up.window = w)

Fairness ==
  /\ DownloadFairness
  /\ UploadFairness
  /\ WF_pex(On("pex", PexTick))
  /\ \A c \in Faithful : /\ WF_meta(On("metadata", handle_ext_handshake(c)))
                         /\ WF_meta(On("metadata", handle_ut_metadata(c)))

Spec == Init /\ [][Next]_vars /\ Fairness

(* The picker's picture is right: what it counts available is what the     *)
(* connected peers have told, and every request it hands out is one its    *)
(* strategy allows (PiecePicker's index of pieces, Torrent's calls of it). *)
PickerSound == PicksWell /\ AvailabilityExact

(* What the extension protocol tells arrives: the metadata of a magnet, and *)
(* to each peer the peers that can be dialed.                              *)
ExtensionsSettle == MetadataArrives /\ PexSettles
====
