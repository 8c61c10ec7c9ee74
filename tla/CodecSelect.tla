---------------------------- MODULE CodecSelect ----------------------------
(***************************************************************************)
(* storage-codec-select.cpp: which hardware encoders a setup tries, in     *)
(* which order, and whether the buffer shares an engine with OBS's own     *)
(* encoders.  Pure operators.  `obs` says what is known of OBS's encoders: *)
(* [known: BOOLEAN, count: [Families -> Nat]].                             *)
(***************************************************************************)
EXTENDS Naturals, Sequences

Families == {"nvenc", "amf", "qsv"}

\* kMaxObsNvencForBuffer
MaxObsNvencForBuffer == 3

Known(encoder, family, vendor) == [encoder |-> encoder, family |-> family, vendor |-> vendor]

\* HEVC before H.264, and NVENC, AMF, Quick Sync within each.
kCandidates == << Known("hevc_nvenc", "nvenc", "nvidia"),
                  Known("hevc_amf",   "amf",   "amd"),
                  Known("hevc_qsv",   "qsv",   "intel"),
                  Known("h264_nvenc", "nvenc", "nvidia"),
                  Known("h264_amf",   "amf",   "amd"),
                  Known("h264_qsv",   "qsv",   "intel") >>

Encoders == {kCandidates[i].encoder : i \in DOMAIN kCandidates}

\* FamilyOf(GetBackend()) of an encoder that is open.
FamilyOf(encoder) ==
    (CHOOSE c \in {kCandidates[i] : i \in DOMAIN kCandidates} : c.encoder = encoder).family


\* Whether a setup may try the candidate at all.
Allowed(c, vendors, obs, blacklist) ==
    /\ c.vendor \in vendors
    /\ c.family = "nvenc" => ~obs.known \/ obs.count["nvenc"] <= MaxObsNvencForBuffer
    /\ c.encoder \notin blacklist

SharesEngine(c, obs) == ~obs.known \/ obs.count[c.family] > 0

\* The place of the i-th of the table in the order of a setup: the engines OBS does not encode on come
\* first, each group in the order of the table.
Place(i, obs) == IF SharesEngine(kCandidates[i], obs) THEN i + Len(kCandidates) ELSE i

EncoderAt(place) ==
    kCandidates[IF place > Len(kCandidates) THEN place - Len(kCandidates) ELSE place].encoder

\* The places of those a setup may try; it goes from the lowest up.
RankCandidates(vendors, obs, blacklist) ==
    {Place(i, obs) : i \in {j \in DOMAIN kCandidates : Allowed(kCandidates[j], vendors, obs, blacklist)}}

\* EngineShare: what an encoder of that family, and the hardware decode on that vendor's GPU, share
\* with OBS.  NVIDIA decodes on an engine of its own, AMD and Intel on the one that encodes.
ShareOf(family, hardwareDecode, decodeVendor, obs) ==
    [known  |-> obs.known,
     encode |-> obs.known /\ obs.count[family] > 0,
     decode |-> /\ obs.known
                /\ hardwareDecode
                /\ \/ decodeVendor = "amd" /\ obs.count["amf"] > 0
                   \/ decodeVendor = "intel" /\ obs.count["qsv"] > 0]

\* EngineShare::Any: what is not known counts as shared.
AnyShared(share) == ~share.known \/ share.encode \/ share.decode
=============================================================================
