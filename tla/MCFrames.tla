------------------------------ MODULE MCFrames ------------------------------
(* src/src/atdecc-aem.yml, and more lengths of its lists than it has.  With   *)
(* 43 formats a descriptor just does not fit, with 300 its length wraps, and  *)
(* with 8175 it cannot be made.  The valid times are whole seconds and those  *)
(* where the field or the time between announcements changes.                 *)
EXTENDS Frames

MCConfig ==
    [t \in Registered |->
        CASE t = "CONFIGURATION" -> {"descriptor_counts"}
          [] t = "STREAM_INPUT"  -> {"stream_formats", "stream_flags"}
          [] t = "AVB_INTERFACE" -> {"mac_address"}
          [] t = "AUDIO_CLUSTER" -> {"signal_type"}
          [] t = "AUDIO_MAP"     -> {"number_of_mappings"}
          [] OTHER               -> {}]

MCListed == { "ENTITY", "CONFIGURATION", "AUDIO_UNIT", "STREAM_INPUT", "AVB_INTERFACE",
              "CLOCK_SOURCE", "CLOCK_DOMAIN" }

MCSizes == {0, 1, 5, 42, 43, 60, 300, 8174, 8175}

MCValidTimes ==
    { 100 * s : s \in 0 .. 100 }
        \cup { 1, 99, 199, 201, 285, 286, 290, 299, 301, 499, 501, 6099, 6299, 8857, 8858 }

MCMacs == { << 176, 213, 204, 252, 77, 148 >>, << 2, 0, 0, 0, 0, 1 >> }
=============================================================================
