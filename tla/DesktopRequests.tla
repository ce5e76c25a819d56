--------------------------- MODULE DesktopRequests ---------------------------
(***************************************************************************)
(* What becomes of a request for a remote desktop: saved as a session and  *)
(* opened again or not, it passes the checks of the manager, of the        *)
(* supervisor and of the helper, whose arguments are all the helper learns *)
(* of it, and the helper reports what it can do.  A text is its class:     *)
(* "padded" has outer whitespace, "control" a control character, "long"    *)
(* exceeds the limit of its field, "none" is no text at all.               *)
(***************************************************************************)
EXTENDS Naturals, Sequences

CONSTANT Windows  \* cfg!(windows)

VARIABLES
    asked,            \* the request of the window
    request,          \* ... or the one it makes of the session it saved
    record,           \* that session
    stage,            \* how far the request has come
    refuser,          \* who refused it
    arguments,        \* of the helper process: the flags it is given, and their values
    inbox, heard,     \* frames on their way to the helper, and those it has read
    target            \* what the helper connects with

requestVars == <<asked, request, record, stage, refuser, arguments, inbox, heard, target>>

Texts == {"fine", "empty", "blank", "padded", "control", "long"}
Size(w, h) == [width |-> w, height |-> h]

\* The values a field is given: of each kind of text one, and numbers at their limits.
Choices ==
    [protocol |-> {"rdp", "vnc"},
     host |-> {"loopback", "remote", "badname"} \cup (Texts \ {"fine"}),
     port |-> {0, 1},
     username |-> Texts,
     domain |-> Texts \cup {"none"},
     endpoint |-> Texts \cup {"none", "portless"},
     gatewayUser |-> Texts \cup {"none"},
     gatewayCredential |-> Texts \cup {"none", "unusual"},
     credential |-> Texts \cup {"none", "unusual"},
     display |-> {Size(320, 200), Size(319, 720), Size(1920, 1092), Size(1920, 1093)},
     depth |-> {0, 8, 16},
     audio |-> BOOLEAN, clipboard |-> BOOLEAN, insecure |-> BOOLEAN, reconnect |-> BOOLEAN,
     quality |-> {"balanced", "low-latency", "other"},
     attempts |-> {3, 10, 11}]

Rdp == [protocol |-> "rdp", host |-> "remote", port |-> 1, username |-> "fine",
        domain |-> "none", endpoint |-> "none", gatewayUser |-> "none",
        gatewayCredential |-> "none", credential |-> "fine", display |-> Size(320, 200),
        depth |-> 16, audio |-> FALSE, clipboard |-> FALSE, insecure |-> FALSE,
        reconnect |-> TRUE, quality |-> "low-latency", attempts |-> 10]
RdpGateway == [Rdp EXCEPT !.endpoint = "fine", !.gatewayUser = "fine", !.gatewayCredential = "fine"]
Vnc == [Rdp EXCEPT !.protocol = "vnc", !.host = "loopback", !.username = "empty",
                   !.credential = "none"]
VncRemote == [Vnc EXCEPT !.host = "remote", !.insecure = TRUE, !.credential = "fine"]

\* bound: a request differs in two fields from one that is in order.
Requested ==
    UNION {{[base EXCEPT ![f] = v, ![g] = w] : v \in Choices[f], w \in Choices[g]} :
              base \in {Rdp, RdpGateway, Vnc, VncRemote}, f \in DOMAIN Choices, g \in DOMAIN Choices}

Stages == {"asked", "saved", "checked", "resolved", "launched", "waiting", "connecting",
           "agreed", "refused"}
Refusers == {"nobody", "manager", "store", "vault", "supervisor", "helper", "report"}
None == [none |-> TRUE]

RequestsTypeOK ==
    /\ DOMAIN asked = DOMAIN Choices /\ DOMAIN request = DOMAIN Choices
    /\ stage \in Stages /\ refuser \in Refusers
    /\ (refuser = "nobody") <=> (stage # "refused")
    /\ heard \subseteq {"start", "session", "gateway"}

RequestsOf(requests) ==
    /\ asked \in requests
    /\ request = asked
    /\ record = None
    /\ stage = "asked" /\ refuser = "nobody"
    /\ arguments = None /\ target = None
    /\ inbox = <<>> /\ heard = {}

RequestsInit == RequestsOf(Requested)

-----------------------------------------------------------------------------
\* Checks that several layers share.

Given(t) == t # "none"
Blank(t) == t \in {"empty", "blank"}

\* validate_metadata, the same in the manager and the supervisor.
Tidy(t) == t \notin {"blank", "padded", "control", "long"}

\* validate_gateway_endpoint.
EndpointValid(t) == t = "fine"

\* DisplaySize::validate.
MaxFramebufferBytes == 8 * 1024 * 1024 - 10
DisplayFits(d) == 4 * d.width * d.height <= MaxFramebufferBytes
DisplayInRange(d) == d.width \in 320..16384 /\ d.height \in 200..16384
DisplayValid(d) == DisplayInRange(d) /\ DisplayFits(d)

\* ReconnectPolicy::validate and validate_rdp_color_depth.
PolicyValid(r) == r.attempts <= 10
RdpDepthValid(depth) == depth \in {16, 32}

QualityKnown(q) == q \in {"balanced", "low-latency", "low-bandwidth"}
HasGateway(r) == Given(r.endpoint) \/ Given(r.gatewayUser) \/ Given(r.gatewayCredential)

-----------------------------------------------------------------------------
\* validate_request.

GatewayComplete(r) ==
    /\ r.protocol = "rdp"
    /\ EndpointValid(r.endpoint)
    /\ \A t \in {r.gatewayUser, r.gatewayCredential} : Given(t) /\ ~Blank(t) /\ Tidy(t)

ManagerAccepts(r) ==
    /\ ~Blank(r.host) /\ Tidy(r.host) /\ r.port # 0
    /\ r.insecure => r.protocol = "vnc"
    /\ r.protocol = "vnc" /\ ~r.insecure => r.host = "loopback"
    /\ r.protocol = "rdp" => ~Blank(r.username)
    /\ Tidy(r.username) /\ Tidy(r.domain) /\ Tidy(r.credential)
    /\ HasGateway(r) => GatewayComplete(r)
    /\ ~r.audio
    /\ r.protocol = "rdp" /\ r.clipboard => Windows
    /\ r.depth # 0 /\ (r.protocol = "rdp" => RdpDepthValid(r.depth))
    /\ QualityKnown(r.quality)
    /\ PolicyValid(r)
    /\ DisplayValid(r.display)

Refuses(who) == stage' = "refused" /\ refuser' = who
Reaches(s) == stage' = s /\ UNCHANGED refuser

Validates ==
    /\ stage = "asked"
    /\ IF ManagerAccepts(request) THEN Reaches("checked") ELSE Refuses("manager")
    /\ UNCHANGED <<asked, request, record, arguments, inbox, heard, target>>

-----------------------------------------------------------------------------
\* session_save_remote_desktop.

Secret(t) == Given(t) /\ ~Blank(t)

\* CredentialId::new.
ReferenceValid(t) == t = "fine"

\* RdpGatewayProfile::validate.
GatewayProfileValid(s) ==
    /\ s.endpoint = "fine"
    /\ \A t \in {s.gatewayUser, s.gatewayCredential} : t \notin {"empty", "blank", "control", "long"}

\* RemoteDesktopProfile::validate_for_protocol, and what SessionRecord::validate looks at
\* besides: the reference of a secret is that of a CredentialId here.
RecordValid(s) ==
    /\ ~Blank(s.host) /\ s.port # 0
    /\ DisplayInRange(s.display)
    /\ s.depth # 0 /\ (s.protocol = "rdp" => RdpDepthValid(s.depth))
    /\ QualityKnown(s.quality)
    /\ s.domain # "control"
    /\ PolicyValid(s)
    /\ HasGateway(s) => s.protocol = "rdp" /\ GatewayProfileValid(s)
    /\ ~s.audio
    /\ s.protocol = "vnc" => ~Given(s.domain)
    /\ s.insecure => s.protocol = "vnc"

Profile(r) ==
    [r EXCEPT !.username = IF Blank(@) THEN "none" ELSE @,
              !.credential = IF Secret(@) THEN @ ELSE "none"]

Saves ==
    /\ stage = "asked" /\ record = None
    /\ IF ~ManagerAccepts(request) THEN Refuses("manager") /\ UNCHANGED record
       ELSE IF IF Secret(request.credential) THEN ~ReferenceValid(request.credential)
                                             ELSE request.protocol = "rdp"
       THEN Refuses("vault") /\ UNCHANGED record
       ELSE IF ~RecordValid(Profile(request)) THEN Refuses("store") /\ UNCHANGED record
       ELSE Reaches("saved") /\ record' = Profile(request)
    /\ UNCHANGED <<asked, request, arguments, inbox, heard, target>>

\* The window opens a saved session.
Reopens ==
    /\ stage = "saved"
    /\ request' = [record EXCEPT !.username = IF Given(@) THEN @ ELSE "empty"]
    /\ Reaches("asked")
    /\ UNCHANGED <<asked, record, arguments, inbox, heard, target>>

-----------------------------------------------------------------------------
\* start: the secrets are looked up, and may not be there.

Resolves ==
    /\ stage = "checked"
    /\ \/ /\ Secret(request.credential) \/ request.protocol = "vnc"
          /\ \A t \in {request.credential, request.gatewayCredential} :
                Secret(t) => ReferenceValid(t)
          /\ Reaches("resolved")
       \/ /\ \/ request.protocol = "rdp"
             \/ Secret(request.credential)
          /\ Refuses("vault")
    /\ UNCHANGED <<asked, request, record, arguments, inbox, heard, target>>

\* HelperLaunchConfig::validate.
SupervisorAccepts(c) ==
    /\ ~Blank(c.host) /\ Tidy(c.host) /\ c.port # 0
    /\ c.protocol = "rdp" => ~Blank(c.username) /\ Secret(c.credential) /\ RdpDepthValid(c.depth)
    /\ Tidy(c.username) /\ Tidy(c.domain)
    /\ Secret(c.credential) => Tidy(c.credential)
    /\ HasGateway(c) => GatewayComplete(c)
    /\ c.depth # 0
    /\ c.protocol = "vnc" => QualityKnown(c.quality)
    /\ c.insecure => c.protocol = "vnc"
    /\ PolicyValid(c)
    /\ DisplayValid(c.display)

\* Fault: the permission for plaintext stays behind.
VncFlagsQuietly(c) == {"quality"}

VncFlags(c) == {"quality"} \cup {f \in {"insecure"} : c.insecure}

RdpFlags(c) ==
    {"depth"} \cup {f \in {"audio"} : c.audio}
    \cup {f \in {"domain"} : Given(c.domain) /\ c.domain # "empty"}
    \cup {f \in {"endpoint", "gatewayUser"} : Given(c[f])}

\* process_arguments: what is not the case has no flag.
Flags(c) ==
    {"protocol", "host", "port", "display", "reconnect", "attempts"}
    \cup {f \in {"username"} : ~Blank(c.username)}
    \cup {f \in {"clipboard"} : c.clipboard}
    \cup IF c.protocol = "vnc" THEN VncFlags(c) ELSE RdpFlags(c)

\* HelperSupervisor::spawn, and the frames start writes next.
Launches ==
    /\ stage = "resolved"
    /\ IF SupervisorAccepts(request)
       THEN /\ Reaches("launched")
            /\ arguments' = [f \in Flags(request) |-> request[f]]
            /\ inbox' = <<"start", "session">>
                        \o IF Secret(request.gatewayCredential) THEN <<"gateway">> ELSE <<>>
       ELSE Refuses("supervisor") /\ UNCHANGED <<arguments, inbox>>
    /\ UNCHANGED <<asked, request, record, heard, target>>

-----------------------------------------------------------------------------
\* The helper.  parse_arguments: what has no flag keeps its default.

Defaults ==
    [username |-> "none", domain |-> "none", endpoint |-> "none", gatewayUser |-> "none",
     audio |-> FALSE, clipboard |-> FALSE, insecure |-> FALSE, quality |-> "balanced",
     depth |-> 32, display |-> Size(1280, 720), reconnect |-> TRUE, attempts |-> 3]

Parsed(known, a) ==
    [f \in known |-> IF f \in DOMAIN a THEN a[f] ELSE Defaults[f]]

Necessary == {"protocol", "host", "port"}
RdpFields == Necessary \cup (DOMAIN Defaults \ {"insecure", "quality"})
VncFields == Necessary \cup {"username", "display", "quality", "insecure", "clipboard",
                             "reconnect", "attempts"}

\* The RDP helper's; the other one lets outer whitespace pass.
ValidatedText(t) == t \notin {"empty", "blank", "padded", "control", "long"}
VncValidatedText(t) == t \notin {"empty", "blank", "control", "long"}

\* validate_server_name.
ServerName(host) == host # "badname"

RdpParses(a) ==
    /\ DOMAIN a \subseteq RdpFields
    /\ a.protocol = "rdp" /\ Necessary \cup {"username"} \subseteq DOMAIN a
    /\ \A f \in DOMAIN a \cap {"host", "username", "domain", "gatewayUser"} : ValidatedText(a[f])
    /\ "endpoint" \in DOMAIN a => EndpointValid(a.endpoint)
    /\ a.port # 0 /\ ServerName(a.host)
    /\ "endpoint" \in DOMAIN a <=> "gatewayUser" \in DOMAIN a
    /\ LET p == Parsed(RdpFields, a)
       IN DisplayValid(p.display) /\ RdpDepthValid(p.depth) /\ PolicyValid(p)

VncParses(a) ==
    /\ DOMAIN a \subseteq VncFields
    /\ a.protocol = "vnc" /\ Necessary \subseteq DOMAIN a
    /\ \A f \in DOMAIN a \cap {"host", "username"} : VncValidatedText(a[f])
    /\ a.port # 0
    /\ LET p == Parsed(VncFields, a)
       IN QualityKnown(p.quality) /\ DisplayValid(p.display) /\ PolicyValid(p)

\* unsupported_option and vnc_target_is_allowed.
RdpSupports(p) == ~p.audio /\ (p.clipboard => Windows)
VncTargetAllowed(p) == IF p.insecure THEN Tidy(p.host) ELSE p.host = "loopback"

HelperAccepts ==
    IF request.protocol = "rdp"
    THEN RdpParses(arguments) /\ RdpSupports(Parsed(RdpFields, arguments))
    ELSE VncParses(arguments) /\ VncTargetAllowed(Parsed(VncFields, arguments))

HelperBoots ==
    /\ stage = "launched"
    /\ IF HelperAccepts
       THEN /\ Reaches("waiting")
            /\ target' = Parsed(IF request.protocol = "rdp" THEN RdpFields ELSE VncFields, arguments)
       ELSE Refuses("helper") /\ UNCHANGED target
    /\ UNCHANGED <<asked, request, record, arguments, inbox, heard>>

\* run_main until it has what it needs; only an RDP helper with a gateway takes its secret.
GatewayExpected == "endpoint" \in DOMAIN target /\ Given(target.endpoint)
Suffices(frames) ==
    {"start", "session"} \cup {f \in {"gateway"} : GatewayExpected} \subseteq frames

HelperReads ==
    /\ stage = "waiting" /\ inbox # <<>>
    /\ inbox' = Tail(inbox)
    /\ heard' = heard \cup {Head(inbox)}
    /\ IF Head(inbox) = "gateway" /\ ~GatewayExpected THEN Refuses("helper")
       ELSE Reaches(IF Suffices(heard') THEN "connecting" ELSE "waiting")
    /\ UNCHANGED <<asked, request, record, arguments, target>>

-----------------------------------------------------------------------------
\* HelperCapabilities::rdp and ::vnc, and validate_helper_capabilities with what start
\* required of them.
Report ==
    IF request.protocol = "rdp"
    THEN [clipboard |-> Windows, audio |-> FALSE, gateway |-> TRUE, depths |-> {16, 32}]
    ELSE [clipboard |-> TRUE, audio |-> FALSE, gateway |-> FALSE, depths |-> {}]

ReportMeets ==
    /\ request.clipboard => Report.clipboard
    /\ request.audio => Report.audio
    /\ Given(request.endpoint) => Report.gateway
    /\ request.protocol = "rdp" => request.depth \in Report.depths

HelperReports ==
    /\ stage = "connecting"
    /\ IF ReportMeets THEN Reaches("agreed") ELSE Refuses("report")
    /\ UNCHANGED <<asked, request, record, arguments, inbox, heard, target>>

RequestsNext ==
    \/ Validates \/ Saves \/ Reopens \/ Resolves \/ Launches
    \/ HelperBoots \/ HelperReads \/ HelperReports

-----------------------------------------------------------------------------
\* An empty text counts as none.
Value(t) == IF t = "empty" THEN "none" ELSE t
TextFields == {"username", "domain", "endpoint", "gatewayUser"}

\* The helper connects with just what the window asked for, saved in between or not, and
\* in plaintext over a network only when that was asked for.
Honoured ==
    /\ \A f \in DOMAIN target \ TextFields : target[f] = asked[f]
    /\ \A f \in DOMAIN target \cap TextFields : Value(target[f]) = Value(asked[f])
    /\ asked.protocol = "vnc" /\ asked.host # "loopback" => asked.insecure
    /\ "gateway" \in heard <=> Given(asked.endpoint)

\* Layers that check the same thing agree: what the manager accepts is refused later for
\* a secret that is not there or a name that TLS cannot verify only, a helper never waits
\* for a frame that is not sent, its report meets the request, and what was saved is
\* accepted again.  One request can be sent and not saved: VNC with a domain.
RequestsAreHonoured ==
    /\ stage \in {"connecting", "agreed"} => Honoured
    /\ stage = "waiting" => inbox # <<>>
    /\ refuser \notin {"supervisor", "report"}
    /\ refuser = "helper" => request.protocol = "rdp" /\ request.host = "badname"
    /\ refuser = "store" => request.protocol = "vnc" /\ Given(request.domain)
    /\ record # None => refuser # "manager"
=============================================================================
