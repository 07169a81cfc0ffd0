----------------------------- MODULE ImageCache -----------------------------
(***************************************************************************)
(* The thumbnails of NFTs, made when they are first asked for: requests of *)
(* one NFT share a build, builds are limited (cache/nftenrich.js), files   *)
(* are kept up to a limit of bytes (cache/nftmedia.js).                    *)
(*                                                                         *)
(* Each thumbnail takes one byte.  A build waits for the metadata, the     *)
(* picture, and each thumbnail; in between it runs without interruption.   *)
(***************************************************************************)
EXTENDS Requests, SequencesExt, Functions

CONSTANTS
  NFTs,
  ImageOf,       \* by NFT: the url of the image its metadata names
  NoImage,       \* what metadata says without an image that validateURL accepts
  Samples,       \* NFTs that stand for their collection: the first with an URI
  Unknown,       \* metadata that was never fetched
  Sizes,         \* how many sizes are made
  MaxBytes,      \* nfts.media.max_bytes
  Concurrency,   \* nfts.media.concurrency
  MaxFailures,   \* bound: fetches and resizings that fail
  MaxSamples     \* bound: NFTs that the metadata worker samples

ASSUME ImageAssumption == Sizes \in Nat \ {0} /\ MaxBytes \in Nat /\ Concurrency \in Nat

VARIABLES
  meta,      \* cache.nftMeta: the image of an NFT
  media,     \* cache.nftMedia: urls, the least recently served first
  files,     \* <<url, size>> on disk
  builds,    \* inFlightImage, by NFT: [phase, url, size, requests]
  active,    \* activeImageOps
  imageFailures, samples,   \* bounds
  torn       \* history: urls evicted while a build of them was half-way

imageVars == <<meta, media, files, builds, active, imageFailures, samples, torn>>

Images == {ImageOf[nft] : nft \in NFTs} \cup {NoImage}

---------------------------------------------------------------------------
(* nftmedia.js                                                             *)

Touch(rows, url) == Append(RemoveFirst(rows, url), url)

\* evictNFTMediaIfNeeded: above the limit, what was served least recently goes
\* until nine tenths of it are left.
Kept(rows) ==
  LET left == ((MaxBytes * 9) \div 10) \div Sizes
  IN  IF Len(rows) * Sizes <= MaxBytes THEN rows
      ELSE SubSeq(rows, Len(rows) - left + 1, Len(rows))

Evicted(rows) == Range(rows) \ Range(Kept(rows))

\* The row of a url that is complete, and the files of those that go.
Insert_After(url, size) ==
  LET rows == Kept(media)
  IN  /\ media' = Touch(rows, url)
      /\ files' = {file \in files \cup {<<url, size>>} : file[1] \notin Evicted(media)}
      /\ UNCHANGED torn
Insert(url, size) ==
  LET rows == Touch(media, url)
  IN  /\ media' = Kept(rows)
      /\ files' = {file \in files \cup {<<url, size>>} : file[1] \notin Evicted(rows)}
      /\ torn' = torn \cup {gone \in Evicted(rows) :
                   \E nft \in DOMAIN builds : builds[nft].phase = "resize" /\ builds[nft].url = gone}

---------------------------------------------------------------------------
(* nftenrich.js                                                            *)

\* The build of an NFT has ended: all who wait for it are answered.
EndBuild_Well(nft, outcome) ==
  /\ Settle([request \in builds[nft].requests |-> outcome])
  /\ builds' = Restrict(builds, DOMAIN builds \ {nft})
  /\ active' = IF outcome = "failed" THEN active ELSE active - 1
EndBuild(nft, outcome) ==
  /\ Settle([request \in builds[nft].requests |-> outcome])
  /\ builds' = Restrict(builds, DOMAIN builds \ {nft})
  /\ active' = active - 1

\* buildNFTImage from where the metadata is known: no image, a thumbnail there
\* is, or a picture to fetch.
Known(url) ==
  CASE url = NoImage       -> "none"
    [] url \in Range(media) -> "found"
    [] OTHER               -> "fetch"

\* A build that goes on, for a request that has just come or for all there are.
Started(nft, phase, url, waiting) ==
  LET build == [phase |-> phase, url |-> url, size |-> 1, requests |-> waiting]
  IN  builds' = [n \in DOMAIN builds \cup {nft} |-> IF n = nft THEN build ELSE builds[n]]

\* serveNFTImage finds a build of this NFT.
Join_Lost(request, nft) ==
  /\ nft \in DOMAIN builds
  /\ Await(request, "image")
  /\ UNCHANGED imageVars
Join(request, nft) ==
  /\ nft \in DOMAIN builds
  /\ Await(request, "image")
  /\ builds' = [builds EXCEPT ![nft].requests = @ \cup {request}]
  /\ UNCHANGED <<meta, media, files, active, imageFailures, samples, torn>>

Busy(request, nft) ==
  /\ nft \notin DOMAIN builds /\ active >= Concurrency
  /\ Answer(request)
  /\ UNCHANGED imageVars

\* A build begins, and may end in the same turn.
Begin(request, nft) ==
  /\ nft \notin DOMAIN builds /\ active < Concurrency
  /\ \/ /\ meta[nft] = Unknown
        /\ Await(request, "image")
        /\ Started(nft, "enrich", NoImage, {request})
        /\ active' = active + 1
        /\ UNCHANGED media
     \/ /\ meta[nft] # Unknown /\ Known(meta[nft]) = "none"
        /\ Answer(request)
        /\ UNCHANGED <<builds, active, media>>
     \/ /\ meta[nft] # Unknown /\ Known(meta[nft]) = "found"
        /\ Answer(request)
        /\ media' = Touch(media, meta[nft])
        /\ UNCHANGED <<builds, active>>
     \/ /\ meta[nft] # Unknown /\ Known(meta[nft]) = "fetch"
        /\ Await(request, "image")
        /\ Started(nft, "fetch", meta[nft], {request})
        /\ active' = active + 1
        /\ UNCHANGED media
  /\ UNCHANGED <<meta, files, imageFailures, samples, torn>>

Fail == imageFailures < MaxFailures /\ imageFailures' = imageFailures + 1

\* enrichNFT: a failure is recorded too, but does not undo what was known.
Enriched(nft) ==
  \/ meta' = [meta EXCEPT ![nft] = ImageOf[nft]] /\ UNCHANGED imageFailures
  \/ Fail /\ meta' = [meta EXCEPT ![nft] = IF @ = Unknown THEN NoImage ELSE @]

\* The metadata is there and is read again.
Resume(nft) ==
  /\ nft \in DOMAIN builds /\ builds[nft].phase = "enrich"
  /\ Enriched(nft)
  /\ LET url == meta'[nft]
     IN  \/ /\ Known(url) = "none"
            /\ EndBuild(nft, "answered")
            /\ UNCHANGED media
         \/ /\ Known(url) = "found"
            /\ EndBuild(nft, "answered")
            /\ media' = Touch(media, url)
         \/ /\ Known(url) = "fetch"
            /\ Started(nft, "fetch", url, builds[nft].requests)
            /\ UNCHANGED <<media, active, requests, load>>
  /\ UNCHANGED <<files, samples, torn>>

\* The picture is there, and can be decoded.
Fetched(nft) ==
  /\ nft \in DOMAIN builds /\ builds[nft].phase = "fetch"
  /\ builds' = [builds EXCEPT ![nft].phase = "resize"]
  /\ UNCHANGED <<meta, media, files, active, imageFailures, samples, torn, requests, load>>

\* A thumbnail is there: it is written, and after the last one the row.
Resized(nft) ==
  /\ nft \in DOMAIN builds /\ builds[nft].phase = "resize"
  /\ LET build == builds[nft]
     IN  IF build.size = Sizes
           THEN /\ Insert(build.url, build.size)
                /\ EndBuild(nft, "answered")
           ELSE /\ files' = files \cup {<<build.url, build.size>>}
                /\ builds' = [builds EXCEPT ![nft].size = @ + 1]
                /\ UNCHANGED <<media, active, torn, requests, load>>
  /\ UNCHANGED <<meta, imageFailures, samples>>

\* The picture cannot be fetched, decoded or resized.
BuildFails(nft) ==
  /\ Fail
  /\ nft \in DOMAIN builds /\ builds[nft].phase \in {"fetch", "resize"}
  /\ EndBuild(nft, "failed")
  /\ UNCHANGED <<meta, media, files, samples, torn>>

\* startNFTMetadataWorker has sampled this NFT for its collection.
Sampled(nft) ==
  /\ nft \in Samples /\ samples < MaxSamples
  /\ samples' = samples + 1
  /\ Enriched(nft)
  /\ UNCHANGED <<media, files, builds, active, torn, requests, load>>

---------------------------------------------------------------------------
ImageInit ==
  /\ meta = [nft \in NFTs |-> Unknown]
  /\ media = <<>> /\ files = {} /\ builds = <<>> /\ active = 0
  /\ imageFailures = 0 /\ samples = 0 /\ torn = {}

ImageNext == \E nft \in NFTs :
  Resume(nft) \/ Fetched(nft) \/ Resized(nft) \/ BuildFails(nft) \/ Sampled(nft)

=============================================================================
