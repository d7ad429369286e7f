----------------------------- MODULE EncodePlan ----------------------------
(***************************************************************************)
(* From a plan to what ffmpeg is told: the encoder of the machine          *)
(* (encode/hwdetect.py) and the arguments for each stream                  *)
(* (encode/plan.py), and what ffmpeg makes of them.                        *)
(*                                                                         *)
(* Arguments are addressed to output streams by type and index.  Only what *)
(* decides the outcome is kept of them: the codec of each stream, where    *)
(* decoded frames live and where they are uploaded; quality settings and   *)
(* metadata are left out.                                                  *)
(***************************************************************************)
EXTENDS Workflows

Families == {"nvenc", "vaapi", "qsv", "amf", "cpu"}

(* _CODEC_ENCODER_MAP: encoders by target and family. *)
EncoderName ==
  [hevc |-> [nvenc |-> "hevc_nvenc", vaapi |-> "hevc_vaapi", qsv |-> "hevc_qsv",
             amf |-> "hevc_amf", cpu |-> "libx265"],
   h264 |-> [nvenc |-> "h264_nvenc", vaapi |-> "h264_vaapi", qsv |-> "h264_qsv",
             amf |-> "h264_amf", cpu |-> "libx264"],
   av1  |-> [nvenc |-> "av1_nvenc", vaapi |-> "av1_vaapi", qsv |-> "av1_qsv",
             cpu |-> "libsvtav1"]]

HevcOf(family) == [name |-> EncoderName["hevc"][family], family |-> family]
AllHevc        == {HevcOf(f) : f \in Families}

-----------------------------------------------------------------------------
(* Mutants of the definitions below: the slips the properties must notice. *)

(* The upload filter is for the encoders that have no hardware decoder. *)
NeedsUpload_NotVaapi(encoder, fullGpu) == encoder.family = "amf" /\ ~fullGpu

(* Indices count the streams of every type. *)
ArgIndex_Global(probe, i) == i - 1

-----------------------------------------------------------------------------
(* A host is described by what detection finds on it: the GPUs, the names
   in `ffmpeg -encoders`, and the two settings that override detection. *)

IsDetected(host, family) ==
  /\ HevcOf(family).name \in host.encoders
  /\ family = "nvenc" => host.nvidia
  /\ family = "vaapi" => host.renderNode

AutoOrder == <<"nvenc", "vaapi", "qsv", "amf", "cpu">>

AutoDetect(host) ==
  HevcOf(AutoOrder[Least({n \in 1 .. 5 : n = 5 \/ IsDetected(host, AutoOrder[n])})])

DetectBest(host) ==
  LET chosen == {p \in AllHevc : p.name = host.choice}
  IN IF host.override # "" THEN [name |-> host.override, family |-> "override"]
     ELSE IF host.choice = "auto" THEN AutoDetect(host)
     ELSE IF chosen # {} THEN CHOOSE p \in chosen : TRUE
     ELSE [name |-> host.choice, family |-> "manual"]

(* The family is kept; a pair that is not in the map falls to the CPU, and
   a target that is not in it to the encoder of the host. *)
EncoderForCodec(target, base) ==
  LET wanted == IF base.family \in Families THEN base.family ELSE "cpu"
  IN IF target \notin DOMAIN EncoderName THEN base
     ELSE LET family == IF wanted \in DOMAIN EncoderName[target] THEN wanted ELSE "cpu"
          IN [name |-> EncoderName[target][family], family |-> family]

-----------------------------------------------------------------------------
(* Hardware decoding *)

HwDecodable ==
  [vaapi |-> {"h264", "hevc", "av1", "vp9", "vp8", "mpeg2video", "mpeg4"},
   cuda  |-> {"h264", "hevc", "vp9", "vp8", "mpeg2video", "mpeg4", "vc1"},
   qsv   |-> {"h264", "hevc", "av1", "vp9", "mpeg2video"}]

HwaccelFamily == [vaapi |-> "vaapi", nvenc |-> "cuda", qsv |-> "qsv"]

VideoReencodes(probe, plan) == RealVideos(probe) \cap Reencoded(plan)

(* Only the first stream to be re-encoded is looked at. *)
CanHwDecode(probe, plan, encoder) ==
  /\ encoder.family \in DOMAIN HwaccelFamily
  /\ VideoReencodes(probe, plan) # {}
  /\ LET s == probe.streams[Least(VideoReencodes(probe, plan))]
         accel == HwaccelFamily[encoder.family]
     IN /\ s.codec \in HwDecodable[accel]
        /\ ~(accel \in {"vaapi", "qsv"} /\ s.codec = "h264" /\ s.deep)

-----------------------------------------------------------------------------
(* The arguments.  They are addressed by the index a stream has among the
   streams of its type in the INPUT. *)

ArgIndex(probe, i) == TypeIndex(probe, i)

NeedsUpload(encoder, fullGpu) == encoder.family = "vaapi" /\ ~fullGpu

ActualEncoder(plan, base) ==
  IF plan.video = "copy" THEN base ELSE EncoderForCodec(plan.video, base)

BuildArgs(probe, plan, base) ==
  LET encoder  == ActualEncoder(plan, base)
      recoded  == VideoReencodes(probe, plan)
      fullGpu  == recoded # {} /\ CanHwDecode(probe, plan, encoder)
      CodecOf(i, new) == IF i \in Reencoded(plan) THEN new ELSE "copy"
      Addressed(S, new) ==
        [n \in {ArgIndex(probe, i) : i \in S} |->
           CodecOf(CHOOSE i \in S : ArgIndex(probe, i) = n, new)]
  IN [frames |-> IF fullGpu THEN HwaccelFamily[encoder.family] ELSE "memory",
      upload |-> IF recoded # {} /\ NeedsUpload(encoder, fullGpu)
                 THEN {ArgIndex(probe, Least(recoded))} ELSE {},
      video  |-> Addressed(RealVideos(probe), encoder.name),
      audio  |-> Addressed(Audios(probe), plan.audio)]

-----------------------------------------------------------------------------
(* What ffmpeg does with them, as far as this repository relies on it.  It
   maps the real videos, then the audio, then the rest; cover art is not
   mapped.  A stream no argument speaks of gets the muxer's default. *)

Produces(encoder) ==
  CHOOSE c \in DOMAIN EncoderName :
    \E f \in DOMAIN EncoderName[c] : EncoderName[c][f] = encoder

DefaultCodec == [video |-> "h264", audio |-> "ac3"]

Written(s, args, n) ==
  LET told == IF s.type = "video" THEN args.video ELSE args.audio
  IN IF n \notin DOMAIN told THEN [s EXCEPT !.codec = DefaultCodec[s.type]]
     ELSE IF told[n] = "copy" THEN s
     ELSE [s EXCEPT !.codec = IF s.type = "video" THEN Produces(told[n]) ELSE told[n]]

Output(probe, args) ==
  LET V == RealVideos(probe)
      A == Audios(probe)
      Rest == {i \in DOMAIN probe.streams : probe.streams[i].type \notin {"video", "audio"}}
      Kept(S) == [n \in 1 .. Cardinality(S) |->
                    Written(probe.streams[Nth(S, n - 1)], args, n - 1)]
  IN [probe EXCEPT !.streams = Kept(V) \o Kept(A) \o InOrder(probe.streams, Rest)]

(* A file converted as a workflow says, on a machine. *)
Convert(probe, plan, base) == Output(probe, BuildArgs(probe, plan, base))

-----------------------------------------------------------------------------
(* Properties, over bounded inputs *)

(* No cover art comes before the video it belongs to. *)
ArtComesLast(probe) ==
  \A i, j \in DOMAIN probe.streams :
    IsRealVideo(probe.streams[i]) /\ probe.streams[j].type = "video"
      /\ probe.streams[j].pic => i < j

(* The output needs no second conversion. *)
Converges(probe, match, host) ==
  LET out == Convert(probe, Evaluate(probe, match), DetectBest(host))
  IN ~NeedsConversion(Evaluate(out, match))

(* Each re-encoded video reaches its encoder in the memory that encoder
   reads: a vaapi encoder takes frames on the GPU, decoded there or uploaded,
   the CPU's and amf's take frames in system memory. *)
FramesReach(probe, match, host) ==
  LET plan == Evaluate(probe, match)
      args == BuildArgs(probe, plan, DetectBest(host))
      family == ActualEncoder(plan, DetectBest(host)).family
  IN \A i \in VideoReencodes(probe, plan) :
       /\ family = "vaapi" =>
            (args.frames = "vaapi") # (Ordinal(i, RealVideos(probe)) \in args.upload)
       /\ family \notin DOMAIN HwaccelFamily => args.frames = "memory" /\ args.upload = {}
       /\ args.frames # "memory" =>
            probe.streams[i].codec \in HwDecodable[args.frames]
=============================================================================
