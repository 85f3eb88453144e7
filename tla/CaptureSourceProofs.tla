------------------------- MODULE CaptureSourceProofs -------------------------
(***************************************************************************)
(* The safety of CaptureSource for any adapters, scores and payloads.  The *)
(* invariant speaks of the app and the method it is set to; each part of a *)
(* handler keeps it, and so do the handlers, which are made of them.       *)
(***************************************************************************)
EXTENDS CaptureSource, TLAPS

\* What the parts keep, of an app a that is set to a method.
Fine(a, method) ==
    /\ a \in Apps
    /\ a.capture # NoCapture =>
           a.capture.iface = Selected(a) /\ a.capture.method = method
    /\ a.blocked =>
           \/ a.interfaces = <<>>
           \/ /\ a.cause.what = "capture"
              /\ a.cause.iface = Selected(a)
              /\ a.cause.method = method

LEMMA SelectedType ==
    ASSUME NEW a \in Apps
    PROVE  /\ Selected(a) \in Adapters \cup {Nobody}
           /\ a.interfaces = <<>> => Selected(a) = Nobody
BY DEF Apps, Selected, SelectedIn

LEMMA NobodyIsNone == Nobody \notin Adapters
BY SourceAssumption DEF SourceAssumption

LEMMA SettingsChangedFine ==
    ASSUME NEW a \in Apps, NEW method
    PROVE  Fine(SettingsChanged(a), method)
<1>1. /\ SettingsChanged(a) \in Apps
      /\ SettingsChanged(a).capture = NoCapture
      /\ SettingsChanged(a).blocked = FALSE
  BY DEF SettingsChanged, Unblocked, Apps, Cause, Causes, Captures
<1> QED
  BY <1>1 DEF Fine

LEMMA ScanFailedFine ==
    ASSUME NEW a \in Apps, NEW method
    PROVE  Fine(ScanFailed(a), method)
<1>1. /\ ScanFailed(a) \in Apps
      /\ ScanFailed(a).capture = NoCapture
      /\ ScanFailed(a).interfaces = <<>>
  <2>1. Cause("scan") \in Causes /\ NoCapture \in Captures
        /\ <<>> \in Seq(Adapters) /\ 1 \in Nat
    BY DEF Cause, Causes, Captures
  <2> QED
    BY <2>1 DEF ScanFailed, Apps
<1> QED
  BY <1>1 DEF Fine

\* The index that a scan leads to is one of its list, if there is any.
LEMMA ChosenIndex ==
    ASSUME NEW s \in Listings, NEW i \in ChosenIndexes(s)
    PROVE  /\ s \in Seq(Adapters)
           /\ i \in Nat
           /\ s # <<>> => i \in DOMAIN s /\ s[i] \in Adapters
<1>1. PICK n \in 0..Cardinality(Adapters) : s \in [1..n -> Listed]
  BY DEF Listings, Lists
<1>2. n \in Int /\ n >= 0
  BY <1>1
<1>3. s \in Seq(Adapters) /\ DOMAIN s = 1..n
  BY <1>1, <1>2 DEF Listed
<1>4. i \in DOMAIN s \/ i = 1
  BY DEF ChosenIndexes, BestIndexes
<1>5. s # <<>> => n >= 1
  BY <1>1, <1>2, <1>3
<1> QED
  BY <1>2, <1>3, <1>4, <1>5

LEMMA ScannedFine ==
    ASSUME NEW method, NEW a, Fine(a, method),
           NEW s \in Listings, NEW i \in ChosenIndexes(s)
    PROVE  Fine(Scanned(a, s, i), method)
<1> DEFINE b == [a EXCEPT !.interfaces = s, !.index = i]
<1>1. s \in Seq(Adapters) /\ i \in Nat /\ a \in Apps
  BY ChosenIndex DEF Fine
<1>2. b \in Apps
  BY <1>1 DEF Apps
<1>3. /\ b.capture = a.capture /\ b.blocked = a.blocked /\ b.cause = a.cause
      /\ b.interfaces = s /\ b.index = i
  BY <1>1 DEF Apps
<1>4. CASE Selected(a) # Selected(b)
  BY <1>2, <1>4, SettingsChangedFine DEF Scanned
<1>5. CASE Selected(a) = Selected(b)
  <2>1. Scanned(a, s, i) = b
    BY <1>5 DEF Scanned
  <2>2. a.interfaces = <<>> => b.interfaces = <<>>
    <3>1. SUFFICES ASSUME a.interfaces = <<>>, s # <<>>
                   PROVE  FALSE
      BY <1>3
    <3>2. Selected(b) \in Adapters
      BY <1>3, <3>1, ChosenIndex DEF Selected, SelectedIn
    <3>3. Selected(a) = Nobody
      BY <1>1, <3>1, SelectedType
    <3> QED
      BY <1>5, <3>2, <3>3, NobodyIsNone
  <2> HIDE DEF b
  <2> QED
    BY <1>2, <1>3, <1>5, <2>1, <2>2 DEF Fine
<1> QED
  BY <1>4, <1>5

LEMMA RefreshInterfacesFine ==
    ASSUME NEW method, NEW a, Fine(a, method), NEW b \in RefreshInterfaces(a)
    PROVE  Fine(b, method)
<1>1. CASE scans
  <2>1. PICK s \in Listings : b \in {Scanned(a, s, i) : i \in ChosenIndexes(s)}
    BY <1>1 DEF RefreshInterfaces
  <2>2. PICK i \in ChosenIndexes(s) : b = Scanned(a, s, i)
    BY <2>1
  <2> QED
    BY <2>2, ScannedFine
<1>2. CASE ~scans
  BY <1>2, ScanFailedFine DEF RefreshInterfaces, Fine
<1> QED
  BY <1>1, <1>2

LEMMA RefreshSourceFine ==
    ASSUME NEW method, NEW a, Fine(a, method)
    PROVE  Fine(RefreshSource(a), method)
BY SettingsChangedFine DEF RefreshSource, Fine

\* Npcap's availability is about neither.
LEMMA NpcapFine ==
    ASSUME NEW method, NEW a, Fine(a, method), NEW n \in {"unknown", "yes", "no"}
    PROVE  Fine([a EXCEPT !.npcap = n], method)
<1> DEFINE b == [a EXCEPT !.npcap = n]
<1>1. /\ b \in Apps
      /\ b.interfaces = a.interfaces /\ b.index = a.index
      /\ b.capture = a.capture /\ b.blocked = a.blocked /\ b.cause = a.cause
  BY DEF Fine, Apps
<1> HIDE DEF b
<1>2. Selected(b) = Selected(a)
  BY <1>1 DEF Selected
<1>3. Fine(b, method)
  BY <1>1, <1>2 DEF Fine
<1> QED
  BY <1>3 DEF b

\* Any capture that is started is of the adapter shown as selected.
LEMMA MaybeStartFine ==
    ASSUME NEW a, config \in Configs, Fine(a, config.method)
    PROVE  Fine(MaybeStart(a), config.method)
<1> DEFINE started == [iface |-> Selected(a), method |-> config.method,
                       phase |-> "opening"]
           b == [a EXCEPT !.capture = started]
<1>1. a \in Apps
  BY DEF Fine
<1>2. CASE Selected(a) # Nobody /\ ~a.blocked
  <2>1. Selected(a) \in Adapters
    BY <1>1, <1>2, SelectedType
  <2>2. started \in Captures
    BY <2>1 DEF Configs, Captures
  <2>3. /\ started.iface = Selected(a)
        /\ started.method = config.method
    OBVIOUS
  <2> HIDE DEF started
  <2>4. /\ b \in Apps
        /\ b.interfaces = a.interfaces /\ b.index = a.index
        /\ b.capture = started /\ b.blocked = a.blocked
    BY <1>1, <2>2 DEF Apps
  <2> HIDE DEF b
  <2>5. Fine(b, config.method)
    BY <1>2, <2>3, <2>4 DEF Fine, Selected
  <2> QED
    BY <2>5 DEF MaybeStart, b, started
<1>3. CASE ~(Selected(a) # Nobody /\ ~a.blocked)
  BY <1>3 DEF MaybeStart
<1> QED
  BY <1>2, <1>3

\* A failure is put down to the capture that had it, which is the shown one.
LEMMA PolledFine ==
    ASSUME NEW method, NEW a, Fine(a, method)
    PROVE  Fine(Polled(a), method)
<1> DEFINE cause == [what |-> "capture", iface |-> a.capture.iface,
                     method |-> a.capture.method]
           b == [a EXCEPT !.blocked = TRUE, !.capture = NoCapture, !.cause = cause]
<1>1. a \in Apps /\ a.capture \in Captures
  BY DEF Fine, Apps
<1>2. CASE a.capture.phase = "failed"
  <2>1. a.capture # NoCapture
    BY <1>2 DEF NoCapture
  <2>2. /\ a.capture.iface \in Adapters /\ a.capture.method \in AllMethods
        /\ a.capture.iface = Selected(a) /\ a.capture.method = method
    BY <1>1, <2>1 DEF Captures, Fine
  <2>3. /\ cause \in Causes
        /\ cause.what = "capture" /\ cause.iface = Selected(a) /\ cause.method = method
    BY <2>2 DEF Causes
  <2> HIDE DEF cause
  <2>4. /\ b \in Apps
        /\ b.interfaces = a.interfaces /\ b.index = a.index
        /\ b.capture = NoCapture /\ b.cause = cause
    BY <1>1, <2>3 DEF Apps, Captures
  <2> HIDE DEF b
  <2>5. Fine(b, method)
    BY <2>3, <2>4 DEF Fine, Selected
  <2> QED
    BY <1>2, <2>5 DEF Polled, b, cause
<1>3. CASE a.capture.phase # "failed"
  BY <1>3 DEF Polled
<1> QED
  BY <1>2, <1>3

LEMMA UnblockedFine ==
    ASSUME NEW method, NEW a, Fine(a, method)
    PROVE  Fine(Unblocked(a), method)
<1>1. /\ Unblocked(a) \in Apps
      /\ Unblocked(a).interfaces = a.interfaces /\ Unblocked(a).index = a.index
      /\ Unblocked(a).capture = a.capture /\ ~Unblocked(a).blocked
  <2>1. Cause("nothing") \in Causes
    BY DEF Cause, Causes
  <2> QED
    BY <2>1 DEF Unblocked, Fine, Apps
<1>2. Selected(Unblocked(a)) = Selected(a)
  BY <1>1 DEF Selected
<1> QED
  BY <1>1, <1>2 DEF Fine

LEMMA TriedAgainFine ==
    ASSUME NEW a, config \in Configs, Fine(a, config.method), NEW b \in TriedAgain(a)
    PROVE  Fine(b, config.method)
<1>1. PICK c \in RefreshInterfaces([Unblocked(a) EXCEPT !.npcap = "unknown"]) :
          b = MaybeStart(RefreshSource(c))
  BY DEF TriedAgain
<1>2. Fine([Unblocked(a) EXCEPT !.npcap = "unknown"], config.method)
  BY UnblockedFine, NpcapFine
<1>3. Fine(c, config.method)
  BY <1>2, RefreshInterfacesFine
<1> QED
  BY <1>1, <1>3, RefreshSourceFine, MaybeStartFine

\* The phase of the capture may change.
LEMMA PhaseFine ==
    ASSUME NEW method, NEW a, Fine(a, method), a.capture # NoCapture,
           NEW p \in {"live", "erring", "failed"}
    PROVE  Fine([a EXCEPT !.capture.phase = p], method)
<1> DEFINE changed == [a.capture EXCEPT !.phase = p]
           b == [a EXCEPT !.capture = changed]
<1>1. a \in Apps /\ a.capture \in Captures
  BY DEF Fine, Apps
<1>2. /\ changed \in Captures
      /\ changed.iface = a.capture.iface /\ changed.method = a.capture.method
  BY <1>1 DEF Captures
<1> HIDE DEF changed
<1>3. /\ b \in Apps
      /\ b.interfaces = a.interfaces /\ b.index = a.index
      /\ b.capture = changed /\ b.blocked = a.blocked /\ b.cause = a.cause
  BY <1>1, <1>2 DEF Apps
<1> HIDE DEF b
<1>4. Fine(b, method)
  BY <1>2, <1>3 DEF Fine, Selected
<1>5. b = [a EXCEPT !.capture.phase = p]
  BY <1>1 DEF b, changed, Apps
<1> QED
  BY <1>4, <1>5

-----------------------------------------------------------------------------
(* The invariant.                                                          *)

World ==
    /\ platform \in Platforms
    /\ link \in [Adapters -> Links]
    /\ scans \in BOOLEAN
    /\ installed \in BOOLEAN
    /\ keyFile \in BOOLEAN
    /\ moved \in BOOLEAN

SourceInv ==
    /\ World
    /\ loaded \in BOOLEAN
    /\ config \in Configs
    /\ Fine(app, config.method)

LEMMA InitFine == Init => SourceInv
<1> SUFFICES ASSUME Init PROVE SourceInv
  OBVIOUS
<1> DEFINE a0 == [interfaces |-> <<>>, index |-> 1, blocked |-> FALSE,
                  cause |-> Cause("nothing"), paused |-> FALSE,
                  npcap |-> "unknown", capture |-> NoCapture]
<1>1. Fine(a0, config.method)
  <2>1. /\ Cause("nothing") \in Causes /\ NoCapture \in Captures
        /\ <<>> \in Seq(Adapters) /\ 1 \in Nat
    BY DEF Cause, Causes, Captures
  <2>2. a0 \in Apps
    BY <2>1 DEF Apps
  <2> QED
    BY <2>2 DEF Fine
<1>2. app \in RefreshInterfaces(a0)
  BY DEF Init
<1> HIDE DEF a0
<1>3. Fine(app, config.method)
  BY <1>1, <1>2, RefreshInterfacesFine
<1>4. World
  <2>1. link \in [Adapters -> Links]
    BY DEF Init, Links, PlatformLinks
  <2>2. installed \in BOOLEAN
    BY DEF Init
  <2> QED
    BY <2>1, <2>2 DEF Init, World
<1> QED
  BY <1>3, <1>4 DEF Init, SourceInv

\* What takes an adapter or a driver from a capture changes its phase only.
LEMMA DisturbedFine ==
    ASSUME NEW method, Fine(app, method), NEW b \in Disturbed
    PROVE  Fine(b, method)
<1>1. CASE app.capture.phase # "live"
  BY <1>1 DEF Disturbed
<1>2. CASE app.capture.phase = "live"
  <2>1. app.capture # NoCapture
    BY <1>2 DEF NoCapture
  <2>2. PICK p \in {"live", "erring", "failed"} : b = [app EXCEPT !.capture.phase = p]
    BY <1>2 DEF Disturbed
  <2> QED
    BY <2>1, <2>2, PhaseFine
<1> QED
  BY <1>1, <1>2

LEMMA WorldStep ==
    ASSUME SourceInv, WorldNext
    PROVE  SourceInv'
<1>1. Fine(app', config.method)
  <2>1. Fine(app, config.method)
    BY DEF SourceInv
  <2>2. app' = app \/ app' \in Disturbed
    BY DEF WorldNext, PlugOrLink, ScansChange, InstallNpcap, KeyFileChanges
  <2> QED
    BY <2>1, <2>2, DisturbedFine
<1>2. UNCHANGED <<config, loaded>>
  BY DEF WorldNext, PlugOrLink, ScansChange, InstallNpcap, KeyFileChanges
<1>3. World'
  <2>1. CASE PlugOrLink
    <3>0. Fitted[platform] \subseteq Adapters
      BY SourceAssumption DEF SourceAssumption, SourceInv, World
    <3>1. PICK a \in Adapters, l \in Links : link' = [link EXCEPT ![a] = l]
      BY <2>1, <3>0 DEF PlugOrLink, PlatformLinks, Links
    <3>2. link' \in [Adapters -> Links]
      BY <3>1 DEF SourceInv, World
    <3> QED
      BY <2>1, <3>2 DEF PlugOrLink, SourceInv, World
  <2>2. CASE ScansChange
    BY <2>2 DEF ScansChange, SourceInv, World
  <2>3. CASE InstallNpcap
    BY <2>3 DEF InstallNpcap, SourceInv, World
  <2>4. CASE KeyFileChanges
    BY <2>4 DEF KeyFileChanges, SourceInv, World
  <2> QED
    BY <2>1, <2>2, <2>3, <2>4 DEF WorldNext
<1> QED
  BY <1>1, <1>2, <1>3 DEF SourceInv, Fine, Selected, SelectedIn

LEMMA ThreadStep ==
    ASSUME SourceInv, ThreadNext
    PROVE  SourceInv'
<1>1. app.capture # NoCapture
  BY DEF ThreadNext, Opens, OpenFails, ReadFails, NoCapture
<1>2. /\ Fine(app', config.method)
      /\ UNCHANGED <<world, config>>
  <2>1. CASE Opens
    BY <1>1, <2>1, PhaseFine DEF Opens, SourceInv
  <2>2. CASE OpenFails
    BY <1>1, <2>2, PhaseFine DEF OpenFails, SourceInv
  <2>3. CASE ReadFails
    BY <1>1, <2>3, PhaseFine DEF ReadFails, SourceInv
  <2> QED
    BY <2>1, <2>2, <2>3 DEF ThreadNext
<1>3. loaded' \in BOOLEAN
  BY Zenon DEF ThreadNext, Opens, OpenFails, ReadFails, SourceInv
<1> QED
  BY <1>2, <1>3 DEF SourceInv, World, world, Fine, Selected, SelectedIn

LEMMA AppStep ==
    ASSUME SourceInv, AppNext
    PROVE  SourceInv'
<1>1. /\ Fine(app', config.method)
      /\ UNCHANGED <<world, config>>
  <2>1. CASE PollCapture
    BY <2>1, PolledFine DEF PollCapture, SourceInv
  <2>2. CASE StartCapture
    BY <2>2, MaybeStartFine DEF StartCapture, SourceInv
  <2>3. CASE ProbeNpcap
    <3>1. PICK n \in {"unknown", "yes", "no"} : app' = [app EXCEPT !.npcap = n]
      BY <2>3 DEF ProbeNpcap
    <3>2. Fine([app EXCEPT !.npcap = n], config.method)
      BY NpcapFine DEF SourceInv
    <3> QED
      BY <2>3, <3>1, <3>2 DEF ProbeNpcap
  <2> QED
    BY <2>1, <2>2, <2>3 DEF AppNext
<1>2. loaded' \in BOOLEAN
  BY Zenon DEF AppNext, PollCapture, StartCapture, ProbeNpcap, IsInstalled, SourceInv, World
<1> QED
  BY <1>1, <1>2 DEF SourceInv, World, world, Fine, Selected, SelectedIn

LEMMA UserStep ==
    ASSUME SourceInv, UserNext
    PROVE  SourceInv'
<1>1. CASE TogglePaused
  <2>1. Fine([app EXCEPT !.paused = FALSE], config.method)
    BY DEF SourceInv, Fine, Apps, Selected, SelectedIn
  <2>2. Fine([app EXCEPT !.paused = TRUE, !.capture = NoCapture], config.method)
    BY DEF SourceInv, Fine, Apps, Captures, Selected, SelectedIn
  <2>3. Fine(app', config.method)
    BY <1>1, <2>1, <2>2, MaybeStartFine DEF TogglePaused, SourceInv
  <2> QED
    BY <1>1, <2>3 DEF TogglePaused, SourceInv, World, world, Fine, Selected, SelectedIn
<1>2. ASSUME NEW i \in 1..Cardinality(Adapters), PickAdapter(i)
      PROVE  SourceInv'
  <2>1. app.interfaces \in Seq(Adapters) /\ app \in Apps /\ i \in Nat
    BY <1>2 DEF PickAdapter, SourceInv, Fine, Apps
  <2>2. app.interfaces[i] \in Adapters
    BY <1>2, <2>1 DEF PickAdapter
  <2>3. config' \in Configs
    BY <1>2, <2>2 DEF PickAdapter, SourceInv, Configs
  <2>4. [app EXCEPT !.index = i] \in Apps
    BY <2>1 DEF Apps
  <2>5. Fine(app', config'.method)
    BY <1>2, <2>4, SettingsChangedFine DEF PickAdapter
  <2> QED
    BY <1>2, <2>3, <2>5 DEF PickAdapter, SourceInv, World, world, Fine, Selected, SelectedIn
<1>3. ASSUME NEW m \in AllMethods, PickMethod(m)
      PROVE  SourceInv'
  <2>1. config' \in Configs
    BY <1>3 DEF PickMethod, SourceInv, Configs
  <2>2. [app EXCEPT !.npcap = "unknown"] \in Apps
    BY DEF SourceInv, Fine, Apps
  <2>3. Fine(app', config'.method)
    BY <1>3, <2>2, SettingsChangedFine DEF PickMethod
  <2> QED
    BY <1>3, <2>1, <2>3 DEF PickMethod, SourceInv, World, world, Fine, Selected, SelectedIn
<1>4. CASE Refresh
  <2>1. PICK a \in RefreshInterfaces(app) :
            app' = [RefreshSource(a) EXCEPT !.npcap = "unknown"]
    BY <1>4 DEF Refresh
  <2>2. Fine(app', config.method)
    BY <2>1, RefreshInterfacesFine, RefreshSourceFine, NpcapFine DEF SourceInv
  <2> QED
    BY <1>4, <2>2 DEF Refresh, SourceInv, World, Fine, Selected, SelectedIn
<1>5. CASE TryAgain
  <2>1. Fine(app', config.method)
    BY <1>5, TriedAgainFine DEF TryAgain, SourceInv
  <2> QED
    BY <1>5, <2>1 DEF TryAgain, SourceInv, World, Fine, Selected, SelectedIn
<1> QED
  BY <1>1, <1>2, <1>3, <1>4, <1>5 DEF UserNext

THEOREM SourceInvHolds == Spec => []SourceInv
<1>1. SourceInv /\ [Next]_vars => SourceInv'
  <2> SUFFICES ASSUME SourceInv, [Next]_vars
               PROVE  SourceInv'
    OBVIOUS
  <2>1. CASE UNCHANGED vars
    BY <2>1 DEF vars, world, SourceInv, World, Fine, Selected, SelectedIn
  <2>2. CASE Next
    BY <2>2, WorldStep, ThreadStep, AppStep, UserStep DEF Next
  <2> QED
    BY <2>1, <2>2
<1> QED
  BY <1>1, InitFine, PTL DEF Spec

\* Every field of the app has its type, whatever the adapters do.
THEOREM SourceTypes == Spec => []TypeOK
<1>1. SourceInv => TypeOK
  BY DEF SourceInv, World, Fine, TypeOK
<1> QED
  BY <1>1, SourceInvHolds, PTL

\* The capture is that of the adapter shown as selected, by the chosen method.
THEOREM CaptureIsTheShownOneHolds == Spec => []CaptureIsTheShownOne
<1>1. SourceInv => CaptureIsTheShownOne
  BY DEF SourceInv, Fine, CaptureIsTheShownOne
<1> QED
  BY <1>1, SourceInvHolds, PTL

\* What blocks the captures is about the adapter and the method that are set.
THEOREM BlockedIsAboutTheSelectionHolds == Spec => []BlockedIsAboutTheSelection
<1>1. SourceInv => BlockedIsAboutTheSelection
  BY DEF SourceInv, Fine, BlockedIsAboutTheSelection
<1> QED
  BY <1>1, SourceInvHolds, PTL

LEMMA Appended ==
    ASSUME NEW S, NEW s \in Seq(S), NEW e \in S
    PROVE  /\ Len(s \o <<e>>) = Len(s) + 1
           /\ DOMAIN (s \o <<e>>) = 1..(Len(s) + 1)
           /\ (s \o <<e>>)[Len(s) + 1] = e
           /\ \A i \in 1..Len(s) : (s \o <<e>>)[i] = s[i]
OBVIOUS

\* The headers of a frame are skipped, whichever its tags are.
LEMMA SkippedIsTheHeader ==
    ASSUME NEW f \in Frames
    PROVE  /\ Skipped(LinkTypes(f)) = Len(LinkTypes(f))
           /\ Len(LinkTypes(f)) \in Nat \ {0}
           /\ LinkTypes(f)[Len(LinkTypes(f))] \notin VlanTypes
<1> DEFINE tags == f.tags
           type == IF f.version = 4 THEN "0800" ELSE "86dd"
           S == VlanTypes \cup {type}
           types == tags \o <<type>>
<1>1. PICK n \in 0..2 : tags \in [1..n -> VlanTypes]
  BY DEF Frames, TagStacks
<1>2. tags \in Seq(S) /\ Len(tags) = n /\ n \in Nat
  BY <1>1
<1>3. \A i \in 1..n : tags[i] \in VlanTypes
  BY <1>1
<1>4. type \notin VlanTypes /\ type \in S
  BY DEF VlanTypes
<1>5. LinkTypes(f) = types
  BY DEF LinkTypes
<1> HIDE DEF tags, type, S
<1>6. /\ Len(types) = n + 1
      /\ DOMAIN types = 1..(n + 1)
      /\ types[n + 1] = type
      /\ \A i \in 1..n : types[i] = tags[i]
  BY <1>2, <1>4, Appended
<1> HIDE DEF types
<1>7. \A m \in DOMAIN types :
          (types[m] \notin VlanTypes /\ \A i \in 1..(m - 1) : types[i] \in VlanTypes)
              <=> m = n + 1
  BY <1>2, <1>3, <1>4, <1>6
<1>8. Skipped(types) = n + 1
  BY <1>2, <1>6, <1>7 DEF Skipped
<1> QED
  BY <1>2, <1>4, <1>5, <1>6, <1>8

\* Whatever the length of the payload, the tags and the padding, what is handed
\* on is what was sent.
THEOREM PayloadIsWhatWasSentHolds == Spec => []PayloadIsWhatWasSent
<1>1. PayloadIsWhatWasSent
  <2> SUFFICES ASSUME NEW dlt \in DataLinks(app.capture), NEW f \in Frames,
                      Delivers(app.capture, dlt, f)
               PROVE  LET len == PayloadLen(dlt, f)
                      IN  /\ len <= f.payload
                          /\ f.cut = 0 /\ f.https => len = f.payload
                          /\ ~f.https => len = -1
    BY DEF PayloadIsWhatWasSent
  <2>1. /\ f.payload \in Nat /\ f.padding \in {0, 1}
        /\ f.cut \in {0, 1} /\ f.https \in BOOLEAN /\ f.lengthSet \in BOOLEAN
    BY SourceAssumption DEF SourceAssumption, Frames
  <2> DEFINE types == LinkTypes(f)
             offset == Offset(dlt, types)
             available == DataLen(dlt, f) - offset
  <2>2. /\ available = 2 + f.payload + f.padding - f.cut
        /\ dlt = "DLT_EN10MB" => types[offset] \notin VlanTypes
    <3>1. dlt \in {"DLT_EN10MB", "DLT_RAW", "DLT_NULL"}
      BY DEF DataLinks
    <3>2. CASE dlt = "DLT_EN10MB"
      BY <2>1, <3>2, SkippedIsTheHeader DEF DataLen, Offset
    <3>3. CASE dlt = "DLT_RAW"
      BY <2>1, <3>3 DEF DataLen, Offset
    <3>4. CASE dlt = "DLT_NULL"
      BY <2>1, <3>4 DEF DataLen, Offset
    <3> QED
      BY <3>1, <3>2, <3>3, <3>4
  <2>3. (f.padding = 1 => f.lengthSet /\ f.cut = 0)
    BY <2>1 DEF Delivers
  <2> DEFINE len == IF f.version = 4 THEN IpLen(available, f)
                    ELSE Ipv6Len(available, f)
  <2>4. PayloadLen(dlt, f) = IF f.https /\ len >= 2 THEN len - 2 ELSE -1
    BY <2>2 DEF PayloadLen
  <2> HIDE DEF types, offset, available
  <2>5. /\ len \in Int /\ len <= 2 + f.payload
        /\ f.cut = 0 => len = 2 + f.payload
    BY <2>1, <2>2, <2>3 DEF IpLen, Ipv6Len
  <2> HIDE DEF len
  <2> QED
    BY <2>1, <2>4, <2>5
<1> QED
  BY <1>1, PTL DEF Spec
=============================================================================
