---------------------------- MODULE CaptureSource ----------------------------
(***************************************************************************)
(* Which adapter is captured, by which method, and what of a captured      *)
(* frame is handed on: the network settings and the capture's start and    *)
(* end in src/src/app.rs, capture::start_capture, and the backends         *)
(* rawsock.rs, npcap.rs and packet.rs.                                     *)
(*                                                                         *)
(* Adapters come and go while the app runs, a scan of them may fail, Npcap *)
(* is installed and removed, the key file changes, and a capture's thread  *)
(* reports its failure on a channel that is read later, if at all.  A      *)
(* failure blocks captures until the user presses Try again or changes     *)
(* what is captured.                                                       *)
(*                                                                         *)
(* Handlers change the app in several steps, some under conditions; each   *)
(* part is an operator from the fields of the app to new ones, and a       *)
(* handler is their composition.                                           *)
(***************************************************************************)
EXTENDS Integers, Sequences, FiniteSets

CONSTANTS
    Adapters,    \* by name: the GUID of GetAdaptersAddresses, the name in /sys
    Nobody,      \* no adapter
    Bonus,       \* interface_score, the link state left out
    Platforms,   \* of "windows" and "linux"
    Fitted,      \* the adapters a machine of each platform may have
    MaxPayload   \* bound on the payload of a frame, in units

ASSUME SourceAssumption ==
    /\ IsFiniteSet(Adapters)
    /\ Nobody \notin Adapters
    /\ Bonus \in [Adapters -> Int]
    /\ Platforms \subseteq {"windows", "linux"}
    /\ Fitted \in [Platforms -> SUBSET Adapters]
    /\ MaxPayload \in Nat

\* "down" is what an administrator did to an adapter of Linux, "no_carrier" a
\* cable that is out; Windows tells neither from an adapter that is gone.
Links == {"up", "no_carrier", "down", "gone"}
AllMethods == {"RawSocket", "Npcap"}

\* A capture is "erring" when the next read of it returns an error, and
\* "failed" when its thread has ended.
NoCapture == [iface |-> Nobody, method |-> "RawSocket", phase |-> "none"]
Captures == [iface : Adapters, method : AllMethods,
             phase : {"opening", "live", "erring", "failed"}] \cup {NoCapture}

\* What blocked the captures: a failed scan, or a capture of an adapter by a
\* method.
Causes == [what : {"nothing", "scan"}, iface : {Nobody}, method : {"RawSocket"}]
          \cup [what : {"capture"}, iface : Adapters, method : AllMethods]
Cause(what) == [what |-> what, iface |-> Nobody, method |-> "RawSocket"]

VARIABLES
    platform,   \* what the app was built for
    link,       \* of each adapter, now
    scans,      \* FALSE while adapters cannot be listed
    installed,  \* Npcap is, now
    loaded,     \* its library was loaded once: the static API of npcap.rs
    keyFile,    \* the sync-key file is there
    moved,      \* the key source resolves to another than the one in use
    config,     \* selected_interface and capture_method
    app         \* the fields of the app, see Apps

world == <<platform, link, scans, installed, keyFile, moved>>
vars == <<world, loaded, config, app>>

Configs == [selected : Adapters \cup {Nobody}, method : AllMethods]
Apps == [interfaces : Seq(Adapters),
         index : Nat,                    \* selected_interface_index, from 1
         blocked : BOOLEAN,              \* capture_blocked
         cause : Causes,                 \* not in the code: why it is
         paused : BOOLEAN,               \* sync_paused
         npcap : {"unknown", "yes", "no"},  \* npcap_available
         capture : Captures]

TypeOK ==
    /\ platform \in Platforms
    /\ link \in [Adapters -> Links]
    /\ scans \in BOOLEAN
    /\ installed \in BOOLEAN
    /\ loaded \in BOOLEAN
    /\ keyFile \in BOOLEAN
    /\ moved \in BOOLEAN
    /\ config \in Configs
    /\ app \in Apps

-----------------------------------------------------------------------------
(* Listing and opening adapters: rawsock.rs and npcap.rs.                  *)

Methods == IF platform = "windows" THEN AllMethods ELSE {"RawSocket"}

PlatformLinks == IF platform = "windows" THEN {"up", "gone"} ELSE Links

\* Windows lists the adapters that are up, Linux all of them.
Listed ==
    {a \in Adapters : link[a] = "up" \/ (platform = "linux" /\ link[a] # "gone")}

Lists == UNION {[1..n -> Listed] : n \in 0..Cardinality(Adapters)}

\* What list_devices may return: Windows has its own order, Linux puts those
\* that are up first.
Listings ==
    {s \in Lists :
        /\ {s[i] : i \in DOMAIN s} = Listed
        /\ \A i, j \in DOMAIN s :
              /\ s[i] = s[j] => i = j
              /\ (platform = "linux" /\ i < j /\ link[s[j]] = "up") => link[s[i]] = "up"}

\* Npcap::is_installed: a library once loaded stays loaded.
IsInstalled == loaded \/ installed

\* open_capture succeeds.  An adapter of Linux can be bound while it is down.
CanOpen(iface, method) ==
    /\ iface \in Listed
    /\ method \in Methods
    /\ method = "Npcap" => installed

\* ... and the reads that follow do: a bound socket has the error ENETDOWN for
\* its next read when its adapter is down, or goes.
CanCapture(iface, method) ==
    /\ CanOpen(iface, method)
    /\ link[iface] # "down"

-----------------------------------------------------------------------------
(* The adapter that is shown as selected.                                  *)

SelectedIn(interfaces, index) ==
    IF index \in DOMAIN interfaces THEN interfaces[index] ELSE Nobody

Selected(a) == SelectedIn(a.interfaces, a.index)

InterfaceScore(iface) ==
    Bonus[iface] + (IF platform = "windows" THEN 0
                    ELSE IF link[iface] = "up" THEN 100 ELSE -100)

\* best_interface_index: max_by_key returns the last of the best.
BestIndexes(s) ==
    {i \in DOMAIN s : \A j \in DOMAIN s :
        \/ InterfaceScore(s[j]) < InterfaceScore(s[i])
        \/ (InterfaceScore(s[j]) = InterfaceScore(s[i]) /\ j <= i)}

\* The index refresh_interfaces chooses in a new list.
ChosenIndexes(s) ==
    LET remembered == {i \in DOMAIN s : s[i] = config.selected}
    IN  IF remembered # {} THEN remembered
        ELSE IF BestIndexes(s) # {} THEN BestIndexes(s) ELSE {1}

-----------------------------------------------------------------------------
(* Parts of the handlers, from the app as it was to the apps it may become. *)

Unblocked(a) == [a EXCEPT !.blocked = FALSE, !.cause = Cause("nothing")]

\* (Faulty variant.)  Changed settings leave a running capture alone.
SettingsChangedKeeps(a) == Unblocked(a)

\* capture_settings_changed: dropping the handle stops the thread, and drops
\* the channel with what is in it.
SettingsChanged(a) == [Unblocked(a) EXCEPT !.capture = NoCapture]

\* (Faulty variant.)  The selection is compared by its index.
ScannedByIndex(a, s, i) ==
    LET b == [a EXCEPT !.interfaces = s, !.index = i]
    IN  IF a.index = i THEN b ELSE SettingsChanged(b)

\* refresh_interfaces, when the scan gives the list s and chooses i of it.
Scanned(a, s, i) ==
    LET b == [a EXCEPT !.interfaces = s, !.index = i]
    IN  IF Selected(a) = Selected(b) THEN b ELSE SettingsChanged(b)

\* refresh_interfaces, when the scan fails.
ScanFailed(a) ==
    [a EXCEPT !.interfaces = <<>>, !.index = 1, !.capture = NoCapture,
              !.blocked = TRUE, !.cause = Cause("scan")]

RefreshInterfaces(a) ==
    IF scans THEN UNION {{Scanned(a, s, i) : i \in ChosenIndexes(s)} : s \in Listings}
    ELSE {ScanFailed(a)}

\* refresh_sync_key_source
RefreshSource(a) == IF moved THEN SettingsChanged(a) ELSE a

\* (Faulty variant.)  Without the look at whether an adapter is selected.
MaybeStartUnselected(a) ==
    IF a.capture = NoCapture /\ ~a.blocked /\ ~a.paused /\ keyFile
    THEN [a EXCEPT !.capture = [iface |-> Selected(a), method |-> config.method,
                                phase |-> "opening"]]
    ELSE a

\* maybe_start_background_capture.  The app is elevated.
MaybeStart(a) ==
    IF a.capture = NoCapture /\ ~a.blocked /\ ~a.paused /\ keyFile
       /\ Selected(a) # Nobody
    THEN [a EXCEPT !.capture = [iface |-> Selected(a), method |-> config.method,
                                phase |-> "opening"]]
    ELSE a

\* poll_capture finds Error and Stopped in the channel.
Polled(a) ==
    IF a.capture.phase = "failed"
    THEN [a EXCEPT !.blocked = TRUE, !.capture = NoCapture,
                   !.cause = [what |-> "capture", iface |-> a.capture.iface,
                              method |-> a.capture.method]]
    ELSE a

-----------------------------------------------------------------------------
(* The world.                                                              *)

\* What an open capture makes of an adapter or a driver that is taken from it:
\* the socket of Linux has an error, those of Windows may only fall silent.
Disturbed ==
    IF app.capture.phase # "live" THEN {app}
    ELSE {[app EXCEPT !.capture.phase = p] :
             p \in IF platform = "linux" THEN {"erring"} ELSE {"live", "erring"}}

PlugOrLink ==
    /\ \E a \in Fitted[platform], l \in PlatformLinks :
          /\ l # link[a]
          /\ link' = [link EXCEPT ![a] = l]
          /\ app' \in IF a = app.capture.iface /\ l \in {"down", "gone"}
                      THEN Disturbed ELSE {app}
    /\ UNCHANGED <<platform, scans, installed, keyFile, moved, loaded, config>>

ScansChange ==
    /\ scans' = ~scans
    /\ UNCHANGED <<platform, link, installed, keyFile, moved, loaded, config, app>>

InstallNpcap ==
    /\ platform = "windows"
    /\ installed' = ~installed
    /\ app' \in IF installed /\ app.capture.method = "Npcap" THEN Disturbed ELSE {app}
    /\ UNCHANGED <<platform, link, scans, keyFile, moved, loaded, config>>

KeyFileChanges ==
    /\ \/ keyFile' = ~keyFile /\ UNCHANGED moved
       \/ ~moved /\ moved' = TRUE /\ UNCHANGED keyFile
    /\ UNCHANGED <<platform, link, scans, installed, loaded, config, app>>

-----------------------------------------------------------------------------
(* The thread of a capture: capture_loop.                                  *)

\* open_capture, set_filter and datalink
Opens ==
    /\ app.capture.phase = "opening"
    /\ CanOpen(app.capture.iface, app.capture.method)
    /\ app' = [app EXCEPT !.capture.phase =
                   IF link[app.capture.iface] = "down" THEN "erring" ELSE "live"]
    /\ loaded' = (loaded \/ app.capture.method = "Npcap")
    /\ UNCHANGED <<world, config>>

\* Npcap::load comes before the adapter is looked for.
OpenFails ==
    /\ app.capture.phase = "opening"
    /\ ~CanOpen(app.capture.iface, app.capture.method)
    /\ app' = [app EXCEPT !.capture.phase = "failed"]
    /\ loaded' = (loaded \/ (app.capture.method = "Npcap" /\ installed))
    /\ UNCHANGED <<world, config>>

\* next_packet has an error that is not about waiting.
ReadFails ==
    /\ app.capture.phase = "erring"
    /\ app' = [app EXCEPT !.capture.phase = "failed"]
    /\ UNCHANGED <<world, loaded, config>>

-----------------------------------------------------------------------------
(* The app.                                                                *)

\* The first line of run_background_work this is about, ...
PollCapture ==
    /\ app.capture.phase = "failed"
    /\ app' = Polled(app)
    /\ UNCHANGED <<world, loaded, config>>

\* ... and the last.
StartCapture ==
    /\ app' = MaybeStart(app)
    /\ app' # app
    /\ UNCHANGED <<world, loaded, config>>

\* (Faulty variant.)  One answer of the probe is kept.
ProbeNpcapOnce ==
    /\ config.method = "Npcap" /\ app.npcap = "unknown"
    /\ app' = [app EXCEPT !.npcap = IF IsInstalled THEN "yes" ELSE "no"]
    /\ loaded' = IsInstalled
    /\ UNCHANGED <<world, config>>

\* refresh_npcap_available_if_needed
ProbeNpcap ==
    /\ config.method = "Npcap"
    /\ app' = [app EXCEPT !.npcap = IF IsInstalled THEN "yes" ELSE "no"]
    /\ loaded' = IsInstalled
    /\ UNCHANGED <<world, config>>

\* toggle_sync_paused
TogglePaused ==
    /\ app' = IF app.paused THEN MaybeStart([app EXCEPT !.paused = FALSE])
              ELSE [app EXCEPT !.paused = TRUE, !.capture = NoCapture]
    /\ UNCHANGED <<world, loaded, config>>

\* Another entry of the adapter list.
PickAdapter(i) ==
    /\ i \in DOMAIN app.interfaces /\ i # app.index
    /\ config' = [config EXCEPT !.selected = app.interfaces[i]]
    /\ app' = SettingsChanged([app EXCEPT !.index = i])
    /\ UNCHANGED <<world, loaded>>

\* Another method.
PickMethod(m) ==
    /\ m \in Methods \ {config.method}
    /\ config' = [config EXCEPT !.method = m]
    /\ app' = SettingsChanged([app EXCEPT !.npcap = "unknown"])
    /\ UNCHANGED <<world, loaded>>

\* The Refresh button.
Refresh ==
    /\ app' \in {[RefreshSource(a) EXCEPT !.npcap = "unknown"] :
                    a \in RefreshInterfaces(app)}
    /\ moved' = FALSE
    /\ UNCHANGED <<platform, link, scans, installed, keyFile, loaded, config>>

\* (Faulty variant.)  Try again that does not lift the block itself.
TriedAgainBlocked(a) ==
    {MaybeStart(RefreshSource(b)) : b \in RefreshInterfaces([a EXCEPT !.npcap = "unknown"])}

TriedAgain(a) ==
    {MaybeStart(RefreshSource(b)) :
        b \in RefreshInterfaces([Unblocked(a) EXCEPT !.npcap = "unknown"])}

\* Try again, which NeedsAttention offers; when it does so for a submission
\* that gave up, nothing is blocked.
TryAgain ==
    /\ app' \in TriedAgain(app)
    /\ moved' = FALSE
    /\ UNCHANGED <<platform, link, scans, installed, keyFile, loaded, config>>

-----------------------------------------------------------------------------

\* new(): the configuration is one an earlier process saved.
Init ==
    /\ platform \in Platforms
    /\ link \in [Adapters -> PlatformLinks]
    /\ \A a \in Adapters \ Fitted[platform] : link[a] = "gone"
    /\ scans \in BOOLEAN
    /\ installed \in {FALSE, platform = "windows"}
    /\ loaded = FALSE
    /\ keyFile \in BOOLEAN
    /\ moved = FALSE
    /\ config \in Configs
    /\ config.method \in Methods
    /\ app \in RefreshInterfaces(
                  [interfaces |-> <<>>, index |-> 1, blocked |-> FALSE,
                   cause |-> Cause("nothing"), paused |-> FALSE,
                   npcap |-> "unknown", capture |-> NoCapture])

WorldNext == PlugOrLink \/ ScansChange \/ InstallNpcap \/ KeyFileChanges
ThreadNext == Opens \/ OpenFails \/ ReadFails
UserNext ==
    \/ TogglePaused
    \/ \E i \in 1..Cardinality(Adapters) : PickAdapter(i)
    \/ \E m \in AllMethods : PickMethod(m)
    \/ Refresh
    \/ TryAgain
AppNext == PollCapture \/ StartCapture \/ ProbeNpcap

Next == WorldNext \/ ThreadNext \/ AppNext \/ UserNext

Spec == Init /\ [][Next]_vars

\* The background worker calls run_background_work for good, a thread opens or
\* fails, and it reads every 200 ms.
FairSpec ==
    /\ Spec
    /\ WF_vars(PollCapture)
    /\ WF_vars(StartCapture)
    /\ WF_vars(ProbeNpcap)
    /\ WF_vars(Opens \/ OpenFails)
    /\ WF_vars(ReadFails)

-----------------------------------------------------------------------------
(* Frames: packet.rs.  Lengths are in units: one for a link header, a VLAN *)
(* tag, an IP header and a TCP header.                                     *)

\* The types of VLAN tags, and the stacks of them that a frame may have.
VlanTypes == {"8100", "88a8", "9100"}
TagStacks == UNION {[1..n -> VlanTypes] : n \in 0..2}

\* A frame that carries a segment, as the network or the sender's own stack
\* has it; "cut" is what did not fit the buffer of the backend.  A sender that
\* leaves segmentation to the adapter shows packets without a length.
Frames == [tags : TagStacks, version : {4, 6}, https : BOOLEAN,
           payload : 0..MaxPayload, lengthSet : BOOLEAN, padding : 0..1,
           cut : 0..1]

\* What datalink() says: RCVALL has packets, Npcap whatever its adapter has, of
\* which loopback is DLT_NULL, and Linux says Ethernet of every adapter, which
\* the adapters of this model are.
DataLinks(capture) ==
    CASE platform = "linux" -> {"DLT_EN10MB"}
      [] capture.method = "RawSocket" -> {"DLT_RAW"}
      [] OTHER -> {"DLT_EN10MB", "DLT_RAW", "DLT_NULL"}

\* Ethernet pads frames to the length it asks for on their way in, and has tags.
\* RCVALL on an IPv4 address delivers packets of IPv4, and Npcap's filter looks
\* for the port behind an untagged header.
Delivers(capture, datalink, f) ==
    /\ f.padding > 0 => f.lengthSet /\ f.cut = 0
    /\ datalink # "DLT_EN10MB" => f.tags = <<>> /\ f.padding = 0
    /\ datalink = "DLT_RAW" /\ capture.method = "RawSocket" => f.version = 4
    /\ capture.method = "Npcap" => f.tags = <<>> /\ f.https

\* The types in the link header of a frame: those of its tags, then that of
\* what they are around.
LinkTypes(f) == f.tags \o <<IF f.version = 4 THEN "0800" ELSE "86dd">>

\* What was captured of a frame.
DataLen(datalink, f) ==
    LET header == CASE datalink = "DLT_RAW" -> 0
                    [] datalink = "DLT_NULL" -> 1
                    [] OTHER -> Len(LinkTypes(f))
    IN  header + 2 + f.payload + f.padding - f.cut

\* (Faulty variant.)  One tag is skipped, and a second one is not.
SkippedOneTag(types) == IF types[1] \in VlanTypes THEN 2 ELSE 1

\* How many headers are skipped: up to the first type that is no tag's.
Skipped(types) ==
    CHOOSE n \in DOMAIN types :
        /\ types[n] \notin VlanTypes
        /\ \A i \in 1..(n - 1) : types[i] \in VlanTypes

\* Where parse_tcp_segment finds the IP header: slice_packet and ipv4_offset.
Offset(datalink, types) ==
    CASE datalink = "DLT_RAW" -> 0
      [] datalink = "DLT_NULL" -> 1
      [] OTHER -> Skipped(types)

\* (Faulty variant.)  A length of zero is taken for what it says.
IpLenStated(available, f) ==
    IF f.lengthSet THEN (IF 2 + f.payload < available THEN 2 + f.payload ELSE available)
    ELSE 0

\* The IPv4 packet in what was captured, "available" of it and what is behind
\* it: by slice_packet when the stated length fits, or by the fallback.
IpLen(available, f) ==
    IF f.lengthSet /\ 2 + f.payload < available THEN 2 + f.payload ELSE available

\* IPv6 is left to slice_packet, which wants the whole packet and takes a length
\* of zero for what there is.
Ipv6Len(available, f) ==
    IF ~f.lengthSet THEN available ELSE IF f.cut = 0 THEN 2 + f.payload ELSE 0

\* parse_tcp_segment: how much of the payload it hands on, or -1 for no segment.
PayloadLen(datalink, f) ==
    LET types == LinkTypes(f)
        offset == Offset(datalink, types)
        available == DataLen(datalink, f) - offset
        len == IF datalink = "DLT_EN10MB" /\ types[offset] \in VlanTypes THEN 0
               ELSE IF f.version = 4 THEN IpLen(available, f)
               ELSE Ipv6Len(available, f)
    IN  IF f.https /\ len >= 2 THEN len - 2 ELSE -1


-----------------------------------------------------------------------------
(* What it is for.                                                         *)

\* The capture is that of the adapter shown as selected, by the method shown
\* as chosen, whatever adapters came and went and however the selection came
\* about: start_capture is given both once.
CaptureIsTheShownOne ==
    app.capture # NoCapture =>
        /\ app.capture.iface = Selected(app)
        /\ app.capture.method = config.method

\* What blocks the captures is about what would be captured now: a failure of
\* another adapter or method, of which an old thread may have told, does not
\* keep the new choice from being tried.
BlockedIsAboutTheSelection ==
    app.blocked =>
        \/ app.interfaces = <<>>
        \/ /\ app.cause.what = "capture"
           /\ app.cause.iface = Selected(app)
           /\ app.cause.method = config.method

\* What parse_tcp_segment hands on is what was sent: nothing of the padding
\* behind a packet, all of it unless the frame was cut or cannot be parsed,
\* and nothing of other traffic.  (TLS records would not decrypt otherwise.)
PayloadIsWhatWasSent ==
    app.capture.phase = "live" =>
        \A datalink \in DataLinks(app.capture) : \A f \in Frames :
            Delivers(app.capture, datalink, f) =>
                LET len == PayloadLen(datalink, f)
                IN  /\ len <= f.payload
                    /\ f.cut = 0 /\ f.https => len = f.payload
                    /\ ~f.https => len = -1

\* Nothing is in the way of a capture of iface by method.
Healthy(iface, method) ==
    /\ Selected(app) = iface
    /\ config.method = method
    /\ CanCapture(iface, method)
    /\ scans /\ keyFile /\ ~moved /\ ~app.paused

\* Once nothing is in the way any more, a user who presses Try again for as
\* long as the hub says that it needs attention gets a capture whose thread
\* reads on.  (An adapter that is down is in the way: it opens, and then its
\* reads block the captures again.)
CaptureComesBack ==
    WF_vars(app.blocked /\ TryAgain) =>
        \A iface \in Adapters, method \in AllMethods :
            <>[]Healthy(iface, method) => <>[](app.capture.phase = "live")

\* "The 2s re-check means the Npcap missing warnings clear on their own shortly
\* after the user installs it": npcap_known_missing ends.
MissingNpcapIsNoticed ==
    <>[]installed =>
        <>[]~(config.method = "Npcap" /\ app.npcap = "no")
=============================================================================
