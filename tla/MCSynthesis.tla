----------------------------- MODULE MCSynthesis -----------------------------
(* Values for the run of Synthesis: the keys in the order of their strings.   *)
EXTENDS Synthesis, TLC

CONSTANTS c1, c2

MCFormat   == c1 :> "wav" @@ c2 :> "pcm"
MCLatency  == c1 :> 1 @@ c2 :> 2
MCMaxLines == c1 :> 2 @@ c2 :> 1

MCHttpStatus == 503 :> "http_503"

StatusOrder == <<"http_503", "ok", "request_error", "started",
                 "stream_error", "transport_error", "wrap_error">>
FormatOrder == <<"mp3", "ogg_opus", "pcm">>

Place(s, x) == CHOOSE i \in DOMAIN s : s[i] = x

MCKeys == {StatusOrder[i] : i \in DOMAIN StatusOrder} \X Asked
MCRank == [k \in MCKeys |-> Place(StatusOrder, k[1]) * Len(FormatOrder) + Place(FormatOrder, k[2])]

=============================================================================
