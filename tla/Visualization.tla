---------------------------- MODULE Visualization ----------------------------
(***************************************************************************)
(* kernel::Visualization (src/kernel/visualization.cpp): the client of the *)
(* StreamSession.  The first image opens the session with its size and     *)
(* writes a session description (SDP) that announces a local address in    *)
(* the subnet of the target; send_image tries again with the next image    *)
(* until both have succeeded, and from then on only pushes.                *)
(*                                                                         *)
(* Images are numbered and have a size.  An IPv4 address is a tuple of     *)
(* bits, a netmask the set of the positions it compares.                   *)
(***************************************************************************)
EXTENDS StreamSession

CONSTANTS
  SizeOf,    \* the size of each image; EmptyImage: cv::Mat::empty()
  Hosts,     \* values of monitor_host; NoAddress: not in dotted form
  Networks   \* what getifaddrs can find: sequences of interfaces; if it fails,
             \* that is as good as no interface

VARIABLES
  is_initialized, size_determined,
  session_config,  \* type, target and size of the format
  sending,         \* where the main thread is in send_image()
  pipeline,        \* what the context in use was opened with: codec, payload, size
  sdp              \* the description this process has written

here  == << is_initialized, size_determined, session_config, sending, pipeline, sdp >>
vvars == << vars, here >>

EmptyImage == 0
NoAddress  == << >>
NoConfig   == [type |-> "NONE", host |-> NoAddress, size |-> EmptyImage]
Nothing    == [codec |-> "none"]

VInit ==
  /\ Init
  /\ is_initialized = FALSE
  /\ size_determined = FALSE
  /\ session_config = NoConfig
  /\ sending = "no"
  /\ pipeline = Nothing
  /\ sdp = Nothing

-----------------------------------------------------------------------------
(* The two texts a StreamContext makes of its type.                        *)

Pipeline(type, size) ==
  IF type = "RTP_JPEG"
  THEN [codec |-> "jpegenc", payload |-> 26, size |-> size]
  ELSE [codec |-> "x264enc", payload |-> 96, size |-> size]

Description(type, ip) ==
  IF type = "RTP_JPEG"
  THEN [codec |-> "JPEG/90000", payload |-> 26, ip |-> ip]
  ELSE [codec |-> "H264/90000", payload |-> 96, ip |-> ip]

-----------------------------------------------------------------------------
(* get_same_subnet_ipv4.                                                   *)

\* Defect: the mask is inverted, and the host parts are compared.
SameSubnetInverted(info, target) ==
  \A i \in DOMAIN target \ info.netmask : info.address[i] = target[i]

SameSubnet(info, target) ==
  \A i \in info.netmask : info.address[i] = target[i]

\* Where the list has addresses of the target's subnet.
LocalAddresses(list, target) ==
  {i \in DOMAIN list : target # NoAddress /\ SameSubnet(list[i], target)}

-----------------------------------------------------------------------------
(* initialize() and send_image().                                          *)

\* A type that is not known fails: the caller's business.
VInitialize(type, host) ==
  /\ ~is_initialized
  /\ is_initialized' = TRUE
  /\ session_config' = [NoConfig EXCEPT !.type = type, !.host = host]
  /\ UNCHANGED << vars, size_determined, sending, pipeline, sdp >>

\* Defect: the size is set by the first attempt only.
FormatSizeFirst(f) ==
  IF session_config.size = EmptyImage THEN SizeOf[f] ELSE session_config.size

FormatSize(f) == SizeOf[f]

\* send_image() has an image that is not empty and opens the session.
SendOpens(f) ==
  /\ sending = "begin"
  /\ is_initialized
  /\ SizeOf[f] # EmptyImage
  /\ ~size_determined
  /\ session_config' = [session_config EXCEPT !.size = FormatSize(f)]
  /\ OpenBegins
  /\ sending' = "open"
  /\ UNCHANGED << is_initialized, size_determined, pipeline, sdp >>

\* send_image() returns false without a session.
SendRefuses(f) ==
  /\ sending = "begin"
  /\ \/ ~is_initialized
     \/ SizeOf[f] = EmptyImage
     \/ size_determined /\ ~Opened
  /\ sending' = "no"
  /\ UNCHANGED << vars, is_initialized, size_determined, session_config, pipeline, sdp >>

\* session->open() goes on, and returns.  The context makes its pipeline
\* when it opens, whether the writer then opens or not.
SendWaits ==
  /\ sending = "open"
  /\ OpenSteps
  /\ pipeline' = CASE call = "renew" -> Nothing
                   [] call = "open"  -> Pipeline(session_config.type, session_config.size)
                   [] OTHER          -> pipeline
  /\ sending' = IF call' # "none" THEN "open" ELSE IF Opened' THEN "sdp" ELSE "no"
  /\ UNCHANGED << is_initialized, size_determined, session_config, sdp >>

\* The description announces the first of them.  It is written, unless there
\* is none or the file cannot be written: then the session stays open.
SendDescribes(list, writable) ==
  LET local == LocalAddresses(list, session_config.host)
  IN  /\ sending = "sdp"
      /\ IF Opened /\ local # {} /\ writable
         THEN /\ \E i \in local :
                   /\ \A j \in local : i <= j
                   /\ sdp' = Description(session_config.type, list[i].address)
              /\ size_determined' = TRUE
              /\ sending' = "push"
         ELSE /\ sending' = "no"
              /\ UNCHANGED << sdp, size_determined >>
      /\ UNCHANGED << vars, is_initialized, session_config, pipeline >>

SendPushes(f) ==
  /\ \/ sending = "push"
     \/ sending = "begin" /\ is_initialized /\ SizeOf[f] # EmptyImage /\ size_determined
  /\ Opened
  /\ PushFrame(f)
  /\ sending' = "no"
  /\ UNCHANGED << is_initialized, size_determined, session_config, pipeline, sdp >>

SendStep(f) ==
  \/ SendOpens(f) \/ SendRefuses(f) \/ SendWaits \/ SendPushes(f)
  \/ \E list \in Networks, writable \in BOOLEAN : SendDescribes(list, writable)

-----------------------------------------------------------------------------
(* Properties.                                                             *)

\* The first frame written to a pipeline has the size the pipeline was opened
\* with, although the size of the images may change while send_image() tries
\* to open the session and to describe it.
FirstFrameFits ==
  [][WriteFrame /\ written = NoFrame => SizeOf[current_frame] = pipeline.size]_vvars

\* Whenever a frame is queued or written, a description has been written: of
\* the codec and the payload type of the pipeline in use, announcing the
\* address of an interface in the subnet of the target.
AnnouncedIsSent ==
  buffer # << >> \/ thread = "write" =>
    /\ << pipeline.codec, sdp.codec >> \in
         {<< "jpegenc", "JPEG/90000" >>, << "x264enc", "H264/90000" >>}
    /\ pipeline.payload = sdp.payload
    /\ \E list \in Networks : \E i \in DOMAIN list :
         /\ list[i].address = sdp.ip
         /\ \A k \in list[i].netmask : sdp.ip[k] = session_config.host[k]
=============================================================================
