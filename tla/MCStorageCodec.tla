--------------------------- MODULE MCStorageCodec ---------------------------
(* Two NVENC encoders, one of which works at every size, and two rungs.      *)
EXTENDS StorageCodec

MCVendors == {"nvidia"}
MCWorking == {<<"hevc_nvenc", 0>>, <<"h264_nvenc", 1>>}
MCRunningAlready == {0, 3}
=============================================================================
