--------------------------- MODULE ProcessProofs ----------------------------
(***************************************************************************)
(* The process holds the descriptors it should, reports why it ends and    *)
(* stops in time, and runs complete configurations only, for every         *)
(* configuration file, limit on the peers and set of errors.  The          *)
(* invariant says, for each place main may be at, what is open and what    *)
(* has gone wrong so far.                                                  *)
(***************************************************************************)
EXTENDS Process, TLAPS

-----------------------------------------------------------------------------
(***************************************************************************)
(* Reading the configuration: what config_load accepts can be run, and no  *)
(* file makes it write past the array of peers                             *)
(***************************************************************************)

Value == {Unset} \union UNION {ValuesOf[key] : key \in InterfaceKeys \union PeerKeys}

InterfaceRecord == [InterfaceKeys -> Value]
PeerRecord      == [PeerKeys -> Value]

ConfigType ==
  /\ cfg \in [interface : InterfaceRecord, peers : Seq(PeerRecord)]
  /\ section \in {NONE, INTERFACE, PEER}
  /\ have \in [PeerKeys -> BOOLEAN]
  /\ have_address \in BOOLEAN

AllSet(p) == \A key \in PeerKeys : p[key] # Unset

\* Every section but the one being read is complete, and the flags of the one
\* being read say which of its keys are set.  After an [Interface] header no
\* section is being read, and the flags stand for the last one, which then had
\* all of its keys.
SectionsComplete ==
  /\ \A k \in 1 .. Len(cfg.peers) - 1 : AllSet(cfg.peers[k])
  /\ section = PEER => Len(cfg.peers) > 0
  /\ (section = PEER /\ Len(cfg.peers) > 0) =>
       \A key \in PeerKeys : have[key] => cfg.peers[Len(cfg.peers)][key] # Unset
  /\ (section # PEER /\ Len(cfg.peers) > 0) => AllSet(cfg.peers[Len(cfg.peers)])

ConfigInv ==
  /\ ConfigType
  /\ SectionsComplete
  /\ have_address => cfg.interface["Address"] # Unset
  /\ PeersFit
  /\ AcceptedIsComplete

\* The state that config_load starts in satisfies the invariant.
LEMMA ConfigInitInv == ConfigInit => ConfigInv
<1> SUFFICES ASSUME ConfigInit PROVE ConfigInv
  OBVIOUS
<1>1. ConfigType
  <2>1. [key \in InterfaceKeys |-> Unset] \in InterfaceRecord
    BY DEF InterfaceRecord, Value
  <2>2. NoKeys \in [PeerKeys -> BOOLEAN]
    BY DEF NoKeys
  <2>3. cfg \in [interface : InterfaceRecord, peers : Seq(PeerRecord)]
    <3>1. <<>> \in Seq(PeerRecord)
      OBVIOUS
    <3> QED
      BY <2>1, <3>1 DEF ConfigInit
  <2> QED
    BY Zenon, <2>2, <2>3 DEF ConfigInit, ConfigType
<1>2. SectionsComplete
  BY DEF ConfigInit, SectionsComplete, NONE, PEER
<1>3. have_address => cfg.interface["Address"] # Unset
  BY DEF ConfigInit
<1>4. PeersFit
  BY ConfigAssumption DEF ConfigInit, PeersFit
<1>5. AcceptedIsComplete
  BY DEF ConfigInit, AcceptedIsComplete
<1> QED
  BY <1>1, <1>2, <1>3, <1>4, <1>5 DEF ConfigInv

\* Nothing that leaves the configuration and the flags alone disturbs the
\* invariant, unless it accepts the file.
LEMMA NotAccepting ==
  ConfigInv /\ UNCHANGED <<cfg, section, have, have_address>> /\ result' # "loaded"
    => ConfigInv'
BY DEF ConfigInv, ConfigType, SectionsComplete, AllSet, PeersFit, AcceptedIsComplete

\* A header ends the section before it, and a [Peer] header starts one where
\* there is room.
LEMMA HeaderKeepsInv ==
  ASSUME ConfigInv, NEW line \in Headers, ReadHeader(line)
  PROVE  ConfigInv'
<1> DEFINE n == Len(cfg.peers)
<1>0. /\ ConfigType /\ SectionsComplete /\ PeersFit /\ result = "reading"
      /\ have_address => cfg.interface["Address"] # Unset
  BY DEF ConfigInv, ReadHeader
<1>n. /\ n \in Nat /\ cfg.peers \in Seq(PeerRecord)
      /\ \A k \in 1 .. n : cfg.peers[k] \in PeerRecord
  BY <1>0 DEF ConfigType
<1>t. (section = PEER => Complete) => \A k \in 1 .. n : AllSet(cfg.peers[k])
  <2> SUFFICES ASSUME section = PEER => Complete, NEW k \in 1 .. n
               PROVE  AllSet(cfg.peers[k])
    OBVIOUS
  <2>1. CASE k # n
    BY <1>0, <1>n, <2>1 DEF SectionsComplete
  <2>2. CASE k = n /\ section = PEER
    BY <1>0, <1>n, <2>2 DEF SectionsComplete, Complete, AllSet
  <2>3. CASE k = n /\ section # PEER
    BY <1>0, <1>n, <2>3 DEF SectionsComplete
  <2> QED
    BY <2>1, <2>2, <2>3
<1>1. CASE /\ section = PEER => Complete
           /\ section' = INTERFACE
           /\ Continue /\ UNCHANGED <<cfg, have, have_address>>
  <2>1. ConfigType'
    BY <1>0, <1>1 DEF ConfigType
  <2>2. SectionsComplete'
    BY <1>n, <1>t, <1>1 DEF SectionsComplete, INTERFACE, PEER
  <2>3. PeersFit' /\ AcceptedIsComplete'
    BY <1>0, <1>1 DEF PeersFit, AcceptedIsComplete, Continue
  <2> QED
    BY <1>0, <1>1, <2>1, <2>2, <2>3 DEF ConfigInv
<1>2. CASE /\ section = PEER => Complete
           /\ Room /\ NewPeer
           /\ Continue /\ UNCHANGED have_address
  <2>e. EmptyPeer \in PeerRecord
    BY DEF EmptyPeer, PeerRecord, Value
  <2>1. /\ cfg'.peers = Append(cfg.peers, EmptyPeer)
        /\ cfg'.interface = cfg.interface
        /\ cfg' \in [interface : InterfaceRecord, peers : Seq(PeerRecord)]
    <3>1. Append(cfg.peers, EmptyPeer) \in Seq(PeerRecord)
      BY <1>n, <2>e
    <3> QED
      BY Zenon, <1>0, <1>2, <3>1 DEF NewPeer, ConfigType
  <2>2. ConfigType'
    BY <1>0, <1>2, <2>1 DEF ConfigType, NewPeer, NoKeys
  <2>3. /\ Len(cfg'.peers) = n + 1
        /\ \A k \in 1 .. n : cfg'.peers[k] = cfg.peers[k]
    BY <1>n, <2>e, <2>1
  <2>4. SectionsComplete'
    <3>1. \A k \in 1 .. n : AllSet(cfg'.peers[k])
      BY <1>t, <1>2, <2>3
    <3>2. section' = PEER /\ \A key \in PeerKeys : ~ have'[key]
      BY <1>2 DEF NewPeer, NoKeys
    <3> QED
      BY <1>n, <2>3, <3>1, <3>2 DEF SectionsComplete
  <2>5. PeersFit' /\ AcceptedIsComplete'
    BY <1>0, <1>n, <1>2, <2>3, ConfigAssumption
    DEF PeersFit, AcceptedIsComplete, Continue, Room
  <2> QED
    BY <1>0, <1>2, <2>1, <2>2, <2>4, <2>5 DEF ConfigInv
<1>3. CASE Fail
  BY <1>3, NotAccepting DEF Fail
<1> QED
  BY <1>1, <1>2, <1>3 DEF ReadHeader

\* A value that its parser takes is one of the key's, and not the unset one.
LEMMA SettingValues ==
  ASSUME NEW line \in Settings, line.value # Invalid,
         line.key \in InterfaceKeys \union PeerKeys
  PROVE  line.value \in Value /\ line.value # Unset
<1>1. line.value \in ValuesOf[line.key]
  <2>1. line \notin Unknown
    BY DEF Unknown
  <2>2. PICK key \in InterfaceKeys \union PeerKeys : line \in SettingsOf(key)
    BY <2>1, Zenon DEF Settings
  <2> QED
    BY <2>2 DEF SettingsOf
<1>2. DOMAIN ValuesOf = InterfaceKeys \union PeerKeys
      /\ Unset \notin ValuesOf[line.key]
  BY ConfigAssumption
<1> QED
  BY <1>1, <1>2 DEF Value

\* A setting goes to the interface or to the section being read.
LEMMA SettingKeepsInv ==
  ASSUME ConfigInv, NEW line \in Settings, ReadSetting(line)
  PROVE  ConfigInv'
<1> DEFINE n == Len(cfg.peers)
<1>0. /\ ConfigType /\ SectionsComplete /\ PeersFit /\ result = "reading"
      /\ have_address => cfg.interface["Address"] # Unset
  BY DEF ConfigInv, ReadSetting
<1>n. /\ n \in Nat /\ cfg.peers \in Seq(PeerRecord)
      /\ \A k \in 1 .. n : cfg.peers[k] \in PeerRecord
  BY <1>0 DEF ConfigType
<1>1. CASE /\ section = INTERFACE /\ line.key \in InterfaceKeys /\ line.value # Invalid
           /\ cfg' = [cfg EXCEPT !.interface[line.key] = line.value]
           /\ have_address' = (have_address \/ line.key = "Address")
           /\ Continue /\ UNCHANGED <<section, have>>
  <2>v. line.value \in Value /\ line.value # Unset
    BY <1>1, SettingValues
  <2>1. /\ cfg'.peers = cfg.peers
        /\ cfg'.interface = [cfg.interface EXCEPT ![line.key] = line.value]
        /\ cfg' \in [interface : InterfaceRecord, peers : Seq(PeerRecord)]
    <3>1. [cfg.interface EXCEPT ![line.key] = line.value] \in InterfaceRecord
      BY <1>0, <1>1, <2>v DEF ConfigType, InterfaceRecord
    <3> QED
      BY Zenon, <1>0, <1>1, <3>1 DEF ConfigType
  <2>2. ConfigType'
    BY <1>0, <1>1, <2>1 DEF ConfigType
  <2>3. SectionsComplete' /\ PeersFit' /\ AcceptedIsComplete'
    BY <1>0, <1>1, <2>1 DEF SectionsComplete, PeersFit, AcceptedIsComplete, Continue
  <2>4. have_address' => cfg'.interface["Address"] # Unset
    BY <1>0, <1>1, <2>1, <2>v DEF ConfigType, InterfaceRecord, InterfaceKeys
  <2> QED
    BY <2>2, <2>3, <2>4 DEF ConfigInv
<1>2. CASE /\ section = PEER /\ line.key \in PeerKeys /\ line.value # Invalid
           /\ cfg' = [cfg EXCEPT !.peers[Len(cfg.peers)][line.key] = line.value]
           /\ have' = [have EXCEPT ![line.key] = TRUE]
           /\ Continue /\ UNCHANGED <<section, have_address>>
  <2>v. line.value \in Value /\ line.value # Unset
    BY <1>2, SettingValues
  <2>p. n \in 1 .. n
    BY <1>0, <1>n, <1>2 DEF SectionsComplete
  <2>1. /\ cfg'.interface = cfg.interface
        /\ cfg'.peers = [cfg.peers EXCEPT ![n] = [@ EXCEPT ![line.key] = line.value]]
        /\ cfg' = [interface |-> cfg'.interface, peers |-> cfg'.peers]
    BY Zenon, <1>0, <1>2 DEF ConfigType
  <2>2. [cfg.peers[n] EXCEPT ![line.key] = line.value] \in PeerRecord
    BY <1>n, <1>2, <2>v, <2>p DEF PeerRecord
  <2>3. /\ cfg'.peers \in Seq(PeerRecord) /\ Len(cfg'.peers) = n
        /\ cfg'.peers[n] = [cfg.peers[n] EXCEPT ![line.key] = line.value]
        /\ \A k \in 1 .. n - 1 : cfg'.peers[k] = cfg.peers[k]
    BY <1>n, <2>p, <2>1, <2>2
  <2>4. ConfigType'
    BY Zenon, <1>0, <1>2, <2>1, <2>3 DEF ConfigType
  <2>5. SectionsComplete'
    <3>1. \A k \in 1 .. n - 1 : AllSet(cfg'.peers[k])
      BY Zenon, <1>0, <2>3 DEF SectionsComplete
    <3>2. \A key \in PeerKeys : have'[key] => cfg'.peers[n][key] # Unset
      BY <1>0, <1>n, <1>2, <2>v, <2>p, <2>3 DEF SectionsComplete, ConfigType, PeerRecord
    <3> QED
      BY <1>n, <1>2, <2>p, <2>3, <3>1, <3>2 DEF SectionsComplete
  <2>6. PeersFit' /\ AcceptedIsComplete'
    BY <1>0, <1>2, <2>3 DEF PeersFit, AcceptedIsComplete, Continue
  <2> QED
    BY <1>0, <1>2, <2>1, <2>4, <2>5, <2>6 DEF ConfigInv
<1>3. CASE Fail
  BY <1>3, NotAccepting DEF Fail
<1> QED
  BY <1>1, <1>2, <1>3 DEF ReadSetting

\* At the end of the file the last section is looked at like the others.
LEMMA EndKeepsInv ==
  ASSUME ConfigInv, EndOfFile
  PROVE  ConfigInv'
<1>1. CASE ~ Acceptable
  BY <1>1, NotAccepting DEF EndOfFile
<1>2. CASE Acceptable
  <2> DEFINE n == Len(cfg.peers)
  <2>1. UNCHANGED <<cfg, section, have, have_address>>
    BY DEF EndOfFile
  <2>2. n \in Nat
    BY DEF ConfigInv, ConfigType
  <2>3. ASSUME NEW k \in 1 .. n PROVE AllSet(cfg.peers[k])
    <3>1. CASE k # n
      BY <2>2, <3>1 DEF ConfigInv, SectionsComplete
    <3>2. CASE k = n
      BY <1>2, <2>2, <3>2
      DEF ConfigInv, SectionsComplete, Acceptable, Complete, AllSet
    <3> QED
      BY <3>1, <3>2
  <2>4. AcceptedIsComplete'
    BY <1>2, <2>1, <2>3 DEF ConfigInv, AcceptedIsComplete, AllSet, Acceptable
  <2> QED
    BY <2>1, <2>4 DEF ConfigInv, ConfigType, SectionsComplete, AllSet, PeersFit
<1> QED
  BY <1>1, <1>2

\* A step of config_load keeps the invariant.
LEMMA ConfigNextInv == ConfigInv /\ [config_load]_configVars => ConfigInv'
<1> SUFFICES ASSUME ConfigInv, [config_load]_configVars PROVE ConfigInv'
  OBVIOUS
<1>1. ASSUME NEW ok \in BOOLEAN, OpenFile(ok) PROVE ConfigInv'
  <2>1. result' # "loaded" /\ UNCHANGED <<cfg, section, have, have_address>>
    BY <1>1 DEF OpenFile
  <2> QED
    BY <2>1, NotAccepting
<1>2. ASSUME NEW line \in Blanks, SkipLine(line) PROVE ConfigInv'
  BY <1>2, NotAccepting DEF SkipLine, Continue
<1>3. ASSUME NEW line \in Headers, ReadHeader(line) PROVE ConfigInv'
  BY <1>3, HeaderKeepsInv
<1>4. ASSUME NEW line \in Settings, ReadSetting(line) PROVE ConfigInv'
  BY <1>4, SettingKeepsInv
<1>5. ASSUME NEW line \in Others, ReadOther(line) PROVE ConfigInv'
  BY <1>5, NotAccepting DEF ReadOther, Fail
<1>6. CASE EndOfFile
  BY Zenon, <1>6, EndKeepsInv
<1>7. CASE UNCHANGED configVars
  BY <1>7 DEF configVars, ConfigInv, ConfigType, SectionsComplete, AllSet, PeersFit,
              AcceptedIsComplete
<1> QED
  BY <1>1, <1>2, <1>3, <1>4, <1>5, <1>6, <1>7 DEF config_load

\* A configuration that config_load accepts is complete, whatever the file.
THEOREM AcceptedComplete == ConfigSpec => []AcceptedIsComplete
<1>1. ConfigInv => AcceptedIsComplete
  BY DEF ConfigInv
<1> QED
  BY <1>1, ConfigInitInv, ConfigNextInv, PTL DEF ConfigSpec

\* The array of peers is never written past its end.
THEOREM PeersAlwaysFit == ConfigSpec => []PeersFit
<1>1. ConfigInv => PeersFit
  BY DEF ConfigInv
<1> QED
  BY <1>1, ConfigInitInv, ConfigNextInv, PTL DEF ConfigSpec

-----------------------------------------------------------------------------
(***************************************************************************)
(* The process                                                             *)
(***************************************************************************)

EarlyPlaces     == {"log_init", "sigaction", "crypto_init", "config_load", "tun_open",
                    "tun_open failed"}
TunPlaces       == {"tun_configure", "tun_configure failed", "udp_bind", "udp_bind failed"}
ConfigurePlaces == {"ifr_addr", "SIOCSIFADDR", "ifr_netmask", "SIOCSIFNETMASK",
                    "SIOCGIFFLAGS", "SIOCSIFFLAGS", "close"}
LoopPlaces      == {"while", "poll", "polling", "EINTR", "iteration", "shutdown"}
FailedPlaces    == {"tun_open failed", "tun_configure failed", "udp_bind failed"}

HoldsTun == tun_fd \in 3 .. 8 /\ tun_fd \in DOMAIN table /\ table[tun_fd] = "tun"
HoldsBoth ==
  /\ HoldsTun /\ udp_fd \in 3 .. 8 /\ tun_fd # udp_fd
  /\ DOMAIN table = {tun_fd, udp_fd} /\ table[udp_fd] = "udp"

\* What is open at each place.
DescriptorInv ==
  /\ pc \in EarlyPlaces => DOMAIN table = {} /\ tun_fd = NoFd /\ udp_fd = NoFd
  /\ pc = "TUNSETIFF" => /\ tun_fd = NoFd /\ udp_fd = NoFd
                         /\ local \in 3 .. 8 /\ DOMAIN table = {local}
                         /\ table[local] = "tun"
  /\ pc \in TunPlaces => HoldsTun /\ udp_fd = NoFd /\ DOMAIN table = {tun_fd}
  /\ pc \in ConfigurePlaces => /\ HoldsTun /\ udp_fd = NoFd /\ local # tun_fd
                               /\ DOMAIN table = {tun_fd, local}
  /\ pc = "bind" => /\ HoldsTun /\ udp_fd = NoFd /\ local \in 3 .. 8 /\ local # tun_fd
                    /\ DOMAIN table = {tun_fd, local} /\ table[local] = "udp"
  /\ pc \in LoopPlaces \union {"session_init"} => HoldsBoth
  /\ pc = "exited" => DOMAIN table = {}

\* The stream of the configuration file is open only while it is read.
FileInv ==
  /\ pc \in {"log_init", "sigaction", "crypto_init"} => result = "called" /\ f = "closed"
  /\ pc = "config_load" => result = "called" \/ result = "reading"
  /\ (pc = "config_load" /\ result = "called") => f = "closed"
  /\ pc \notin {"config_load", "killed"} => f = "closed"

\* A cause is on its way to stderr, or has got there.
ReportInv ==
  /\ g_level \in Levels
  /\ pc \in FailedPlaces => cause = errno /\ errno \in Errnos
  /\ pc \notin FailedPlaces \union {"shutdown", "exited", "killed"} => cause = Nothing
  /\ (pc = "shutdown" /\ cause # Nothing) => told = cause
  /\ FailureReported

\* poll is called with the flag down only if the flag fell after it was read.
StopInv ==
  /\ polls \in 0 .. 1
  /\ g_running \in BOOLEAN
  /\ (g_running \/ pc = "poll") => polls = 0

ProcessInv == DescriptorInv /\ FileInv /\ ReportInv /\ StopInv

-----------------------------------------------------------------------------
(***************************************************************************)
(* Descriptors                                                             *)
(***************************************************************************)

\* With at most one descriptor open, the kernel hands out another one.
LEMMA FreeIsFree ==
  ASSUME \/ DOMAIN table = {}
         \/ \E fd \in 3 .. 8 : DOMAIN table = {fd}
  PROVE  Free \in 3 .. 8 /\ Free \notin DOMAIN table
<1> DEFINE Lowest(fd) == /\ fd \notin DOMAIN table
                         /\ \A lower \in 3 .. fd - 1 : lower \in DOMAIN table
<1>1. \E fd \in 3 .. 8 : Lowest(fd)
  <2>1. CASE 3 \notin DOMAIN table
    <3>1. Lowest(3)
      BY <2>1
    <3> QED
      BY <3>1
  <2>2. CASE 3 \in DOMAIN table
    <3>1. DOMAIN table = {3}
      BY <2>2
    <3>2. Lowest(4)
      BY <3>1
    <3> QED
      BY <3>2
  <2> QED
    BY <2>1, <2>2
<1>2. Free = CHOOSE fd \in 3 .. 8 : Lowest(fd)
  BY DEF Free
<1> QED
  BY <1>1, <1>2

\* Opening a descriptor adds it to the table and keeps the others.
LEMMA OpenedTable ==
  ASSUME NEW what
  PROVE  /\ DOMAIN Opened(what) = DOMAIN table \union {Free}
         /\ Opened(what)[Free] = what
         /\ \A fd \in DOMAIN table : fd # Free => Opened(what)[fd] = table[fd]
BY DEF Opened

\* Closing descriptors removes them and keeps the others.
LEMMA ClosedTable ==
  ASSUME NEW fds
  PROVE  /\ DOMAIN Closed(fds) = DOMAIN table \ fds
         /\ \A fd \in DOMAIN table \ fds : Closed(fds)[fd] = table[fd]
BY Zenon DEF Closed

\* Steps that leave the descriptors alone keep the invariant when the place they
\* lead to asks for the same descriptors.
LEMMA SameDescriptors ==
  ASSUME DescriptorInv, KeepsDescriptors,
         \/ pc \in EarlyPlaces /\ pc' \in EarlyPlaces
         \/ pc \in EarlyPlaces /\ pc' = "exited"
         \/ /\ pc \in LoopPlaces \union {"session_init"}
            /\ pc' \in LoopPlaces \union {"session_init"}
         \/ pc' = pc
         \/ pc' = "killed"
  PROVE  DescriptorInv'
BY Zenon DEF DescriptorInv, KeepsDescriptors, descriptors, EarlyPlaces, TunPlaces,
       ConfigurePlaces, LoopPlaces, HoldsTun, HoldsBoth

\* CloseAll closes everything where only the device and the socket are open.
LEMMA CloseAllCloses ==
  ASSUME DOMAIN table \subseteq {tun_fd, udp_fd}, CloseAll, pc' = "exited"
  PROVE  DescriptorInv'
<1>1. DOMAIN table' = {}
  BY Zenon, ClosedTable DEF CloseAll
<1> QED
  BY <1>1 DEF DescriptorInv, EarlyPlaces, TunPlaces, ConfigurePlaces, LoopPlaces

\* A call that fails after its descriptor was opened closes that one.
LEMMA FailLocalDescriptors ==
  ASSUME DescriptorInv, NEW e, NEW closing,
         \/ pc = "TUNSETIFF" /\ FailLocal("tun_open", e, closing)
         \/ pc \in ConfigurePlaces /\ FailLocal("tun_configure", e, closing)
         \/ pc = "bind" /\ FailLocal("udp_bind", e, closing)
  PROVE  DescriptorInv'
<1>1. /\ DOMAIN table' = DOMAIN table \ {local}
      /\ \A fd \in DOMAIN table \ {local} : table'[fd] = table[fd]
      /\ tun_fd' = tun_fd /\ udp_fd' = udp_fd
  BY ClosedTable DEF FailLocal
<1>2. CASE pc = "TUNSETIFF" /\ FailLocal("tun_open", e, closing)
  <2>1. pc' = "tun_open failed"
    BY Zenon, <1>2 DEF FailLocal, FailsAt
  <2> QED
    BY Zenon, <1>1, <1>2, <2>1 DEF DescriptorInv, EarlyPlaces, TunPlaces, ConfigurePlaces,
                            LoopPlaces
<1>3. CASE pc \in ConfigurePlaces /\ FailLocal("tun_configure", e, closing)
  <2>1. pc' = "tun_configure failed"
    BY Zenon, <1>3 DEF FailLocal, FailsAt
  <2> QED
    BY Zenon, <1>1, <1>3, <2>1 DEF DescriptorInv, EarlyPlaces, TunPlaces, ConfigurePlaces,
                            LoopPlaces, HoldsTun
<1>4. CASE pc = "bind" /\ FailLocal("udp_bind", e, closing)
  <2>1. pc' = "udp_bind failed"
    BY Zenon, <1>4 DEF FailLocal, FailsAt
  <2> QED
    BY Zenon, <1>1, <1>4, <2>1 DEF DescriptorInv, EarlyPlaces, TunPlaces, ConfigurePlaces,
                            LoopPlaces, HoldsTun
<1> QED
  BY <1>2, <1>3, <1>4

\* The places of tun_configure follow one another.
LEMMA ConfiguringPlaces ==
  /\ Len(Configuring) = 7
  /\ \A k \in 1 .. 6 : /\ Configuring[k] \in ConfigurePlaces \ {"close"}
                       /\ Configuring[k + 1] \in ConfigurePlaces
<1>1. Len(Configuring) = 7
  BY DEF Configuring
<1>2. ASSUME NEW k \in 1 .. 6
      PROVE  Configuring[k] \in ConfigurePlaces \ {"close"} /\ Configuring[k + 1] \in ConfigurePlaces
  <2>1. k = 1 \/ k = 2 \/ k = 3 \/ k = 4 \/ k = 5 \/ k = 6
    OBVIOUS
  <2> QED
    BY <2>1 DEF Configuring, ConfigurePlaces
<1> QED
  BY <1>1, <1>2

\* Where the calls that open a descriptor lead.
LEMMA CallPlaces ==
  /\ DOMAIN OpensAt = {"tun_open", "tun_configure", "udp_bind"}
  /\ OpensAt["tun_open"] = "TUNSETIFF" /\ FailsAt["tun_open"] = "tun_open failed"
  /\ OpensAt["tun_configure"] = "ifr_addr"
  /\ FailsAt["tun_configure"] = "tun_configure failed"
  /\ OpensAt["udp_bind"] = "bind" /\ FailsAt["udp_bind"] = "udp_bind failed"
BY Zenon DEF OpensAt, FailsAt

\* Every step keeps what is open in line with the place main is at.
LEMMA DescriptorNext == DescriptorInv /\ [Next]_vars => DescriptorInv'
<1> SUFFICES ASSUME DescriptorInv, [Next]_vars PROVE DescriptorInv'
  OBVIOUS
<1> USE DEF KeepsConfig, KeepsLoop
<1>1. ASSUME NEW level_env, LogInit(level_env) PROVE DescriptorInv'
  BY <1>1, SameDescriptors DEF LogInit, EarlyPlaces
<1>2. CASE InstallHandlers
  BY <1>2, SameDescriptors DEF InstallHandlers, EarlyPlaces
<1>3. ASSUME NEW ok \in BOOLEAN, CryptoInit(ok) PROVE DescriptorInv'
  BY Zenon, <1>3, SameDescriptors DEF CryptoInit, EarlyPlaces, Return
<1>4. CASE LoadConfig
  <2>1. pc = "config_load" /\ KeepsDescriptors
    BY <1>4 DEF LoadConfig
  <2>2. pc' = "tun_open" \/ pc' = "exited" \/ pc' = pc
    BY <1>4 DEF LoadConfig, Return
  <2> QED
    BY Zenon, <2>1, <2>2, SameDescriptors DEF EarlyPlaces
<1>5. ASSUME NEW call \in DOMAIN OpensAt, NEW ok \in BOOLEAN, NEW e, OpenLocal(call, ok, e)
      PROVE  DescriptorInv'
  <2>1. pc = call /\ tun_fd' = tun_fd /\ udp_fd' = udp_fd
    BY <1>5 DEF OpenLocal
  <2>2. call = "tun_open" \/ call = "tun_configure" \/ call = "udp_bind"
    BY DEF OpensAt
  <2>3. CASE ok
    <3>1. /\ local' = Free /\ table' = Opened(Opens[call]) /\ pc' = OpensAt[call]
      BY Zenon, <1>5, <2>3 DEF OpenLocal
    <3>2. Free \in 3 .. 8 /\ Free \notin DOMAIN table
      BY Zenon, <2>1, <2>2, FreeIsFree DEF DescriptorInv, EarlyPlaces, TunPlaces, HoldsTun
    <3>3. /\ DOMAIN table' = DOMAIN table \union {local'}
          /\ table'[local'] = Opens[call]
          /\ \A fd \in DOMAIN table : table'[fd] = table[fd]
      BY Zenon, <3>1, <3>2, OpenedTable
    <3>4. CASE call = "tun_open"
      <4>1. pc' = "TUNSETIFF" /\ Opens[call] = "tun"
        BY Zenon, <3>1, <3>4 DEF OpensAt, Opens
      <4>2. DOMAIN table = {} /\ tun_fd = NoFd /\ udp_fd = NoFd
        BY Zenon, <2>1, <3>4 DEF DescriptorInv, EarlyPlaces
      <4> QED
        BY Zenon, <2>1, <3>1, <3>2, <3>3, <4>1, <4>2
           DEF DescriptorInv, EarlyPlaces, TunPlaces, ConfigurePlaces, LoopPlaces
    <3>5. CASE call = "tun_configure"
      <4>1. pc' = "ifr_addr"
        BY Zenon, <3>1, <3>5 DEF OpensAt
      <4>2. HoldsTun /\ udp_fd = NoFd /\ DOMAIN table = {tun_fd}
        BY Zenon, <2>1, <3>5 DEF DescriptorInv, TunPlaces
      <4> QED
        BY Zenon, <2>1, <3>1, <3>2, <3>3, <4>1, <4>2
           DEF DescriptorInv, EarlyPlaces, TunPlaces, ConfigurePlaces, LoopPlaces, HoldsTun
    <3>6. CASE call = "udp_bind"
      <4>1. pc' = "bind" /\ Opens[call] = "udp"
        BY Zenon, <3>1, <3>6 DEF OpensAt, Opens
      <4>2. HoldsTun /\ udp_fd = NoFd /\ DOMAIN table = {tun_fd}
        BY Zenon, <2>1, <3>6 DEF DescriptorInv, TunPlaces
      <4> QED
        BY Zenon, <2>1, <3>1, <3>2, <3>3, <4>1, <4>2
           DEF DescriptorInv, EarlyPlaces, TunPlaces, ConfigurePlaces, LoopPlaces, HoldsTun
    <3> QED
      BY Zenon, <2>2, <3>4, <3>5, <3>6
  <2>4. CASE ~ ok
    <3>1. table' = table /\ pc' = FailsAt[call]
      BY Zenon, <1>5, <2>4 DEF OpenLocal
    <3>2. \/ call = "tun_open" /\ pc' = "tun_open failed"
          \/ call = "tun_configure" /\ pc' = "tun_configure failed"
          \/ call = "udp_bind" /\ pc' = "udp_bind failed"
      BY Zenon, <2>2, <3>1, CallPlaces
    <3> QED
      BY Zenon, <2>1, <3>1, <3>2
         DEF DescriptorInv, EarlyPlaces, TunPlaces, ConfigurePlaces, LoopPlaces, HoldsTun
  <2> QED
    BY Zenon, <2>3, <2>4
<1>6. ASSUME NEW ok \in BOOLEAN, NEW e, NEW closing, SetIff(ok, e, closing)
      PROVE  DescriptorInv'
  <2>1. CASE ok
    BY Zenon, <1>6, <2>1 DEF SetIff, DescriptorInv, EarlyPlaces, TunPlaces, ConfigurePlaces,
                      LoopPlaces, HoldsTun
  <2>2. CASE ~ ok
    BY <1>6, <2>2, FailLocalDescriptors DEF SetIff
  <2> QED
    BY Zenon, <2>1, <2>2
<1>7. ASSUME NEW k \in 1 .. Len(Configuring) - 1, NEW ok \in BOOLEAN, NEW e, NEW closing,
             Configure(k, ok, e, closing)
      PROVE  DescriptorInv'
  <2>1. pc \in ConfigurePlaces /\ Configuring[k + 1] \in ConfigurePlaces
    BY <1>7, ConfiguringPlaces DEF Configure
  <2>2. CASE ok
    <3>1. UNCHANGED <<table, tun_fd, udp_fd, local>> /\ pc' \in ConfigurePlaces
      BY Zenon, <1>7, <2>1, <2>2 DEF Configure, descriptors
    <3> QED
      BY Zenon, <2>1, <3>1 DEF DescriptorInv, EarlyPlaces, TunPlaces, ConfigurePlaces,
                        LoopPlaces, HoldsTun
  <2>3. CASE ~ ok
    BY Zenon, <1>7, <2>1, <2>3, FailLocalDescriptors DEF Configure
  <2> QED
    BY Zenon, <2>2, <2>3
<1>8. CASE EndConfigure
  <2>1. /\ DOMAIN table' = DOMAIN table \ {local}
        /\ \A fd \in DOMAIN table \ {local} : table'[fd] = table[fd]
    BY Zenon, <1>8, ClosedTable DEF EndConfigure
  <2> QED
    BY Zenon, <1>8, <2>1 DEF EndConfigure, DescriptorInv, EarlyPlaces, TunPlaces,
                      ConfigurePlaces, LoopPlaces, HoldsTun
<1>9. ASSUME NEW ok \in BOOLEAN, NEW e, NEW closing, Bind(ok, e, closing)
      PROVE  DescriptorInv'
  <2>1. CASE ok
    BY <1>9, <2>1 DEF Bind, DescriptorInv, EarlyPlaces, TunPlaces, ConfigurePlaces,
                      LoopPlaces, HoldsTun, HoldsBoth
  <2>2. CASE ~ ok
    BY <1>9, <2>2, FailLocalDescriptors DEF Bind
  <2> QED
    BY <2>1, <2>2
<1>10. CASE GiveUp
  <2>1. CASE pc = "tun_open failed"
    BY Zenon, <1>10, <2>1, SameDescriptors DEF GiveUp, Return, EarlyPlaces
  <2>2. CASE pc # "tun_open failed"
    <3>1. CloseAll /\ pc' = "exited"
      BY Zenon, <1>10, <2>2 DEF GiveUp, Return
    <3>2. DOMAIN table = {tun_fd}
      BY Zenon, <1>10, <2>2 DEF GiveUp, DescriptorInv, TunPlaces
    <3> QED
      BY <3>1, <3>2, CloseAllCloses
  <2> QED
    BY Zenon, <2>1, <2>2
<1>11. ASSUME NEW ok \in BOOLEAN, InitSession(ok) PROVE DescriptorInv'
  <2>1. CASE ok
    BY <1>11, <2>1, SameDescriptors DEF InitSession
  <2>2. CASE ~ ok
    <3>1. CloseAll /\ pc' = "exited"
      BY Zenon, <1>11, <2>2 DEF InitSession, Return
    <3>2. DOMAIN table = {tun_fd, udp_fd}
      BY Zenon, <1>11 DEF InitSession, DescriptorInv, HoldsBoth
    <3> QED
      BY Zenon, <3>1, <3>2, CloseAllCloses
  <2> QED
    BY <2>1, <2>2
<1>12. CASE StartLoop
  BY Zenon, <1>12, SameDescriptors DEF StartLoop, LoopPlaces
<1>13. CASE While \/ Poll \/ PollTimeout \/ PollInterrupted \/ Iterate \/ PollReady
  BY Zenon, <1>13, SameDescriptors DEF While, Poll, PollTimeout, PollInterrupted, Iterate,
                                PollReady, KeepsAllButLoop, LoopPlaces
<1>14. ASSUME NEW e, PollFails(e) PROVE DescriptorInv'
  BY <1>14, SameDescriptors DEF PollFails, KeepsAllButLoop, LoopPlaces
<1>15. CASE Shutdown
  <2>1. CloseAll /\ pc' = "exited"
    BY Zenon, <1>15 DEF Shutdown, Return
  <2>2. DOMAIN table = {tun_fd, udp_fd}
    BY Zenon, <1>15 DEF Shutdown, DescriptorInv, HoldsBoth, LoopPlaces
  <2> QED
    BY <2>1, <2>2, CloseAllCloses
<1>16. CASE Signal
  BY Zenon, <1>16, SameDescriptors DEF Signal, LoopPlaces
<1>17. CASE UNCHANGED vars
  BY Zenon, <1>17, SameDescriptors DEF vars, KeepsDescriptors
<1> QED
  BY Zenon, <1>1, <1>2, <1>3, <1>4, <1>5, <1>6, <1>7, <1>8, <1>9, <1>10, <1>11, <1>12, <1>13,
     <1>14, <1>15, <1>16, <1>17 DEF Next, Main

-----------------------------------------------------------------------------
(***************************************************************************)
(* The file, the reports and the flag                                      *)
(***************************************************************************)

\* What one step of config_load does with the stream.
LEMMA LoadSteps ==
  ASSUME config_load, result = "called" => f = "closed"
  PROVE  /\ result' \in {"reading", "loaded", "failed"}
         /\ result' # "reading" => f' = "closed"
<1>1. ASSUME NEW ok \in BOOLEAN, OpenFile(ok)
      PROVE  \/ result' = "reading"
             \/ result' = "failed" /\ f' = f /\ result = "called"
  BY <1>1 DEF OpenFile
<1>2. ASSUME NEW line, SkipLine(line) \/ ReadOther(line)
      PROVE  result' = "reading" \/ (result' = "failed" /\ f' = "closed")
  BY Zenon, <1>2 DEF SkipLine, ReadOther, Continue, Fail
<1>3. ASSUME NEW line, ReadHeader(line)
      PROVE  result' = "reading" \/ (result' = "failed" /\ f' = "closed")
  BY <1>3 DEF ReadHeader, Continue, Fail
<1>4. ASSUME NEW line, ReadSetting(line)
      PROVE  result' = "reading" \/ (result' = "failed" /\ f' = "closed")
  BY <1>4 DEF ReadSetting, Continue, Fail
<1>5. CASE EndOfFile
  BY Zenon, <1>5 DEF EndOfFile
<1> QED
  BY Zenon, <1>1, <1>2, <1>3, <1>4, <1>5 DEF config_load

\* What LoadConfig does, one outcome at a time.
LEMMA LoadOutcomes ==
  ASSUME LoadConfig
  PROVE  /\ pc = "config_load" /\ config_load
         /\ UNCHANGED <<errno, cause, g_level, g_running, polls>>
         /\ \/ result' = "loaded" /\ pc' = "tun_open" /\ status' = status /\ told' = told
            \/ result' = "failed" /\ pc' = "exited" /\ status' = 1 /\ told' = "config"
            \/ result' = "reading" /\ pc' = pc /\ status' = status /\ told' = told
BY Zenon DEF LoadConfig, Return, KeepsLoop

\* Every other step leaves the reading of the configuration alone.
LEMMA OtherSteps ==
  ASSUME [Next]_vars
  PROVE  LoadConfig \/ UNCHANGED configVars
BY Zenon DEF Next, Main, LogInit, InstallHandlers, CryptoInit, OpenLocal, SetIff, Configure,
       EndConfigure, Bind, GiveUp, InitSession, StartLoop, While, Poll, PollTimeout,
       PollInterrupted, Iterate, Shutdown, PollReady, PollFails, Signal, KeepsAllButLoop,
       KeepsConfig, vars

\* Where main may go from each place.
LEMMA Successors ==
  ASSUME [Next]_vars
  PROVE  \/ pc' = pc
         \/ pc = "log_init" /\ pc' = "sigaction"
         \/ pc = "sigaction" /\ pc' = "crypto_init"
         \/ pc = "crypto_init" /\ pc' \in {"config_load", "exited"}
         \/ LoadConfig
         \/ pc' = "killed"
         \/ /\ pc \notin {"log_init", "sigaction", "crypto_init", "config_load", "killed"}
            /\ pc' \notin {"log_init", "sigaction", "crypto_init", "config_load"}
<1> DEFINE Later == {"log_init", "sigaction", "crypto_init", "config_load", "killed"}
<1>1. ASSUME NEW call \in DOMAIN OpensAt, NEW ok \in BOOLEAN, NEW e, OpenLocal(call, ok, e)
      PROVE  pc \notin Later /\ pc' \notin Later
  <2>1. call = "tun_open" \/ call = "tun_configure" \/ call = "udp_bind"
    BY DEF OpensAt
  <2>2. /\ FailsAt[call] \notin Later /\ OpensAt[call] \notin Later
    BY Zenon, <2>1, CallPlaces
  <2>3. pc = call /\ pc' \in {FailsAt[call], OpensAt[call]}
    BY <1>1 DEF OpenLocal
  <2> QED
    BY Zenon, <2>1, <2>2, <2>3
<1>2. ASSUME NEW k \in 1 .. Len(Configuring) - 1, NEW ok \in BOOLEAN, NEW e, NEW closing,
             Configure(k, ok, e, closing)
      PROVE  pc \notin Later /\ pc' \notin Later
  <2>1. pc \in ConfigurePlaces /\ Configuring[k + 1] \in ConfigurePlaces
    BY <1>2, ConfiguringPlaces DEF Configure
  <2>2. pc' = Configuring[k + 1] \/ pc' = "tun_configure failed"
    BY Zenon, <1>2 DEF Configure, FailLocal, FailsAt
  <2> QED
    BY Zenon, <2>1, <2>2 DEF ConfigurePlaces
<1>3. ASSUME NEW ok \in BOOLEAN, NEW e, NEW closing,
             SetIff(ok, e, closing) \/ Bind(ok, e, closing)
      PROVE  pc \notin Later /\ pc' \notin Later
  BY Zenon, <1>3 DEF SetIff, Bind, FailLocal, FailsAt
<1>4. ASSUME NEW ok \in BOOLEAN, InitSession(ok)
      PROVE  pc \notin Later /\ pc' \notin Later
  BY <1>4 DEF InitSession, Return
<1>5. ASSUME NEW e, PollFails(e) PROVE pc \notin Later /\ pc' \notin Later
  BY Zenon, <1>5 DEF PollFails
<1>6. CASE EndConfigure \/ GiveUp \/ StartLoop \/ While \/ Poll \/ PollTimeout \/ PollInterrupted
           \/ Iterate \/ Shutdown \/ PollReady
  BY Zenon, <1>6 DEF EndConfigure, GiveUp, StartLoop, While, Poll, PollTimeout, PollInterrupted,
              Iterate, Shutdown, PollReady, Return
<1>7. CASE Signal
  BY <1>7 DEF Signal, Ended
<1>8. ASSUME NEW level_env, LogInit(level_env) PROVE pc = "log_init" /\ pc' = "sigaction"
  BY Zenon, <1>8 DEF LogInit
<1>9. CASE InstallHandlers
  BY <1>9 DEF InstallHandlers
<1>10. ASSUME NEW ok \in BOOLEAN, CryptoInit(ok)
       PROVE  pc = "crypto_init" /\ pc' \in {"config_load", "exited"}
  BY Zenon, <1>10 DEF CryptoInit, Return
<1>11. CASE UNCHANGED vars
  BY <1>11 DEF vars
<1> HIDE DEF Later
<1>12. pc \notin Later /\ pc' \notin Later =>
         /\ pc \notin {"log_init", "sigaction", "crypto_init", "config_load", "killed"}
         /\ pc' \notin {"log_init", "sigaction", "crypto_init", "config_load"}
  BY DEF Later
<1> QED
  BY Zenon, <1>1, <1>2, <1>3, <1>4, <1>5, <1>6, <1>7, <1>8, <1>9, <1>10, <1>11, <1>12
     DEF Next, Main

\* Every step keeps the stream open only while the file is read.
LEMMA FileNext == FileInv /\ [Next]_vars => FileInv'
<1> SUFFICES ASSUME FileInv, [Next]_vars PROVE FileInv'
  OBVIOUS
<1>1. CASE LoadConfig
  BY Zenon, <1>1, LoadOutcomes, LoadSteps DEF FileInv
<1>2. CASE ~ LoadConfig
  <2>1. f' = f /\ result' = result
    BY Zenon, <1>2, OtherSteps DEF configVars
  <2> QED
    BY <1>2, <2>1, Successors DEF FileInv
<1> QED
  BY Zenon, <1>1, <1>2

\* Every step keeps the number of waits after a signal at one at most.
LEMMA StopNext == StopInv /\ [Next]_vars => StopInv'
<1> SUFFICES ASSUME StopInv, [Next]_vars PROVE StopInv'
  OBVIOUS
<1>1. CASE While
  BY Zenon, <1>1 DEF While, StopInv
<1>2. CASE Poll
  BY <1>2 DEF Poll, StopInv
<1>3. CASE Signal
  BY Zenon, <1>3 DEF Signal, StopInv
<1>4. CASE LoadConfig
  BY <1>4, LoadOutcomes DEF StopInv
<1>5. ASSUME UNCHANGED <<g_running, polls>>, pc' # "poll" PROVE StopInv'
  BY <1>5 DEF StopInv
<1>6. ASSUME NEW call \in DOMAIN OpensAt, NEW ok \in BOOLEAN, NEW e, OpenLocal(call, ok, e)
      PROVE  StopInv'
  <2>1. call = "tun_open" \/ call = "tun_configure" \/ call = "udp_bind"
    BY DEF OpensAt
  <2>2. FailsAt[call] # "poll" /\ OpensAt[call] # "poll"
    BY Zenon, <2>1, CallPlaces
  <2> QED
    BY <1>5, <1>6, <2>2 DEF OpenLocal, KeepsLoop
<1>7. ASSUME NEW k \in 1 .. Len(Configuring) - 1, NEW ok \in BOOLEAN, NEW e, NEW closing,
             Configure(k, ok, e, closing)
      PROVE  StopInv'
  <2>1. Configuring[k + 1] # "poll"
    BY ConfiguringPlaces DEF ConfigurePlaces
  <2>2. pc' = Configuring[k + 1] \/ pc' = "tun_configure failed"
    BY Zenon, <1>7 DEF Configure, FailLocal, FailsAt
  <2> QED
    BY Zenon, <1>5, <1>7, <2>1, <2>2 DEF Configure, KeepsLoop
<1>8. ASSUME NEW ok \in BOOLEAN, NEW e, NEW closing,
             SetIff(ok, e, closing) \/ Bind(ok, e, closing)
      PROVE  StopInv'
  BY Zenon, <1>5, <1>8 DEF SetIff, Bind, FailLocal, FailsAt, KeepsLoop
<1>9. ASSUME NEW ok \in BOOLEAN, CryptoInit(ok) \/ InitSession(ok) PROVE StopInv'
  BY Zenon, <1>5, <1>9 DEF CryptoInit, InitSession, Return, KeepsLoop
<1>10. ASSUME NEW e, PollFails(e) PROVE StopInv'
  BY Zenon, <1>5, <1>10 DEF PollFails
<1>11. ASSUME NEW level_env, LogInit(level_env) PROVE StopInv'
  BY Zenon, <1>5, <1>11 DEF LogInit
<1>12. CASE \/ InstallHandlers \/ EndConfigure \/ GiveUp \/ StartLoop \/ PollTimeout
            \/ PollInterrupted \/ Iterate \/ Shutdown \/ PollReady
  BY Zenon, <1>5, <1>12 DEF InstallHandlers, EndConfigure, GiveUp, StartLoop, PollTimeout,
                     PollInterrupted, Iterate, Shutdown, PollReady, Return, KeepsLoop
<1>13. CASE UNCHANGED vars
  BY <1>13 DEF vars, StopInv
<1> QED
  BY Zenon, <1>1, <1>2, <1>3, <1>4, <1>6, <1>7, <1>8, <1>9, <1>10, <1>11, <1>12, <1>13
     DEF Next, Main

\* An error line is never held back, whatever LOG_LEVEL says.
LEMMA ErrorsAreTold ==
  ASSUME g_level \in Levels, NEW reason, LogError(reason)
  PROVE  told' = reason
BY DEF LogError, log_level_enabled, Stream, Levels, DEBUG, WARN, ERROR

\* log_init leaves a level.
LEMMA LogInitLevel == ASSUME NEW level_env PROVE log_init(level_env) \in Levels
<1>1. CASE level_env \in DOMAIN LevelNames
  <2>1. level_env \in {"debug", "info", "warn", "error"}
    BY Zenon, <1>1 DEF LevelNames
  <2>2. LevelNames[level_env] \in {DEBUG, INFO, WARN, ERROR}
    BY <2>1 DEF LevelNames
  <2> QED
    BY <1>1, <2>2 DEF log_init, Levels, DEBUG, INFO, WARN, ERROR
<1>2. CASE level_env \notin DOMAIN LevelNames
  BY <1>2 DEF log_init, Levels, DEBUG, INFO, ERROR
<1> QED
  BY <1>1, <1>2

\* Every step keeps the cause of a failure on its way to stderr.
LEMMA ReportNext == ReportInv /\ [Next]_vars => ReportInv'
<1> SUFFICES ASSUME ReportInv, [Next]_vars PROVE ReportInv'
  OBVIOUS
<1> DEFINE Quiet == FailedPlaces \union {"shutdown", "exited", "killed"}
<1>1. ASSUME g_level' \in Levels, pc \notin Quiet, pc' \notin Quiet \ {"shutdown"}, cause' = cause
      PROVE  ReportInv'
  BY Zenon, <1>1 DEF ReportInv, FailureReported, FailedPlaces
<1>2. ASSUME g_level' = g_level, pc' \in FailedPlaces, NEW e \in Errnos, errno' = e, cause' = e
      PROVE  ReportInv'
  BY Zenon, <1>2 DEF ReportInv, FailureReported, FailedPlaces
<1>3. ASSUME g_level' = g_level, pc' = "exited", cause' = cause, told' # Nothing,
             cause = Nothing \/ told' = cause
      PROVE  ReportInv'
  BY Zenon, <1>3 DEF ReportInv, FailureReported, FailedPlaces
<1>4. ASSUME NEW level_env, LogInit(level_env) PROVE ReportInv'
  BY Zenon, <1>1, <1>4, LogInitLevel DEF LogInit, KeepsReport, FailedPlaces
<1>5. CASE InstallHandlers
  BY Zenon, <1>1, <1>5 DEF InstallHandlers, KeepsReport, FailedPlaces, ReportInv
<1>6. ASSUME NEW ok \in BOOLEAN, CryptoInit(ok) PROVE ReportInv'
  <2>1. CASE ok
    BY Zenon, <1>1, <1>6, <2>1 DEF CryptoInit, KeepsLoop, FailedPlaces, ReportInv
  <2>2. CASE ~ ok
    <3>1. told' = "crypto"
      BY Zenon, <1>6, <2>2, ErrorsAreTold DEF CryptoInit, ReportInv
    <3> QED
      BY Zenon, <1>3, <1>6, <2>2, <3>1 DEF CryptoInit, Return, KeepsLoop, Nothing, ReportInv,
                                    FailedPlaces
  <2> QED
    BY <2>1, <2>2
<1>7. CASE LoadConfig
  <2>1. pc = "config_load" /\ cause' = cause /\ g_level' = g_level /\ cause = Nothing
    BY Zenon, <1>7, LoadOutcomes DEF ReportInv, FailedPlaces
  <2>2. pc' \in {"tun_open", "config_load"} \/ (pc' = "exited" /\ told' = "config")
    BY Zenon, <1>7, <2>1, LoadOutcomes
  <2> QED
    BY Zenon, <1>1, <1>3, <2>1, <2>2 DEF Nothing, FailedPlaces, ReportInv
<1>8. ASSUME NEW call \in DOMAIN OpensAt, NEW ok \in BOOLEAN, NEW e \in Errnos,
             OpenLocal(call, ok, e)
      PROVE  ReportInv'
  <2>1. pc = call /\ pc \notin Quiet /\ g_level' = g_level
    BY Zenon, <1>8, CallPlaces DEF OpenLocal, KeepsLoop, FailedPlaces
  <2>2. CASE ok
    <3>1. pc' = OpensAt[call] /\ cause' = cause
      BY Zenon, <1>8, <2>2 DEF OpenLocal
    <3>2. OpensAt[call] \notin Quiet
      BY Zenon, CallPlaces DEF FailedPlaces
    <3> QED
      BY Zenon, <1>1, <2>1, <3>1, <3>2 DEF ReportInv
  <2>3. CASE ~ ok
    <3>1. pc' = FailsAt[call] /\ cause' = e /\ errno' = e
      BY Zenon, <1>8, <2>3 DEF OpenLocal
    <3>2. FailsAt[call] \in FailedPlaces
      BY Zenon, CallPlaces DEF FailedPlaces
    <3> QED
      BY Zenon, <1>2, <2>1, <3>1, <3>2
  <2> QED
    BY Zenon, <2>2, <2>3
<1>9. ASSUME NEW call \in {"tun_open", "tun_configure", "udp_bind"}, NEW e \in Errnos,
             NEW closing, FailLocal(call, e, closing), g_level' = g_level
      PROVE  ReportInv'
  <2>1. FailsAt[call] \in FailedPlaces
    BY Zenon, CallPlaces DEF FailedPlaces
  <2> QED
    BY Zenon, <1>2, <1>9, <2>1 DEF FailLocal, Restored
<1>10. ASSUME NEW ok \in BOOLEAN, NEW e \in Errnos, NEW closing, SetIff(ok, e, closing)
       PROVE  ReportInv'
  <2>1. CASE ok
    BY Zenon, <1>1, <1>10, <2>1 DEF SetIff, KeepsLoop, FailedPlaces, ReportInv
  <2>2. CASE ~ ok
    BY Zenon, <1>9, <1>10, <2>2 DEF SetIff, KeepsLoop
  <2> QED
    BY Zenon, <2>1, <2>2
<1>11. ASSUME NEW k \in 1 .. Len(Configuring) - 1, NEW ok \in BOOLEAN, NEW e \in Errnos,
              NEW closing, Configure(k, ok, e, closing)
       PROVE  ReportInv'
  <2>1. pc \in ConfigurePlaces /\ Configuring[k + 1] \in ConfigurePlaces
    BY <1>11, ConfiguringPlaces DEF Configure
  <2>2. CASE ok
    <3>1. pc' = Configuring[k + 1] /\ cause' = cause /\ g_level' = g_level
      BY Zenon, <1>11, <2>2 DEF Configure, KeepsLoop
    <3> QED
      BY Zenon, <1>1, <2>1, <3>1 DEF ConfigurePlaces, FailedPlaces, ReportInv
  <2>3. CASE ~ ok
    BY Zenon, <1>9, <1>11, <2>3 DEF Configure, KeepsLoop
  <2> QED
    BY Zenon, <2>2, <2>3
<1>12. CASE EndConfigure
  BY Zenon, <1>1, <1>12 DEF EndConfigure, KeepsLoop, KeepsReport, FailedPlaces, ReportInv
<1>13. ASSUME NEW ok \in BOOLEAN, NEW e \in Errnos, NEW closing, Bind(ok, e, closing)
       PROVE  ReportInv'
  <2>1. CASE ok
    BY Zenon, <1>1, <1>13, <2>1 DEF Bind, KeepsLoop, FailedPlaces, ReportInv
  <2>2. CASE ~ ok
    BY Zenon, <1>9, <1>13, <2>2 DEF Bind, KeepsLoop
  <2> QED
    BY <2>1, <2>2
<1>14. CASE GiveUp
  <2>1. pc \in FailedPlaces /\ cause = errno /\ errno \in Errnos
    BY Zenon, <1>14 DEF GiveUp, FailedPlaces, ReportInv
  <2>2. told' = errno
    BY Zenon, <1>14, ErrorsAreTold DEF GiveUp, ReportInv
  <2> QED
    BY Zenon, <1>3, <1>14, <2>1, <2>2, ErrnosAssumption DEF GiveUp, Return, KeepsLoop
<1>15. ASSUME NEW ok \in BOOLEAN, InitSession(ok) PROVE ReportInv'
  <2>1. CASE ok
    BY Zenon, <1>1, <1>15, <2>1 DEF InitSession, KeepsLoop, FailedPlaces, ReportInv
  <2>2. CASE ~ ok
    <3>1. told' = "session"
      BY Zenon, <1>15, <2>2, ErrorsAreTold DEF InitSession, ReportInv
    <3> QED
      BY Zenon, <1>3, <1>15, <2>2, <3>1 DEF InitSession, Return, KeepsLoop, Nothing, ReportInv,
                                     FailedPlaces
  <2> QED
    BY <2>1, <2>2
<1>16. CASE StartLoop \/ While \/ Poll \/ PollTimeout \/ PollInterrupted \/ Iterate \/ PollReady
  BY Zenon, <1>1, <1>16 DEF StartLoop, While, Poll, PollTimeout, PollInterrupted, Iterate,
                     PollReady, KeepsAllButLoop, KeepsLoop, KeepsReport, FailedPlaces,
                     ReportInv
<1>17. ASSUME NEW e \in Errnos, PollFails(e) PROVE ReportInv'
  <2>1. told' = e /\ cause' = e /\ pc' = "shutdown" /\ g_level' = g_level
    BY Zenon, <1>17, ErrorsAreTold DEF PollFails, KeepsAllButLoop, ReportInv
  <2> QED
    BY Zenon, <2>1 DEF ReportInv, FailureReported, FailedPlaces
<1>18. CASE Shutdown
  <2>1. /\ pc = "shutdown" /\ pc' = "exited" /\ status' = 0 /\ g_level' = g_level
        /\ cause' = cause /\ told' = told
    BY Zenon, <1>18 DEF Shutdown, Return, KeepsLoop, KeepsReport
  <2> QED
    BY <2>1 DEF ReportInv, FailureReported, FailedPlaces
<1>19. CASE Signal
  BY Zenon, <1>19 DEF Signal, Ended, KeepsReport, ReportInv, FailureReported, FailedPlaces
<1>20. CASE UNCHANGED vars
  BY Zenon, <1>20 DEF vars, ReportInv, FailureReported, FailedPlaces
<1> QED
  BY Zenon, <1>4, <1>5, <1>6, <1>7, <1>8, <1>10, <1>11, <1>12, <1>13, <1>14, <1>15, <1>16,
     <1>17, <1>18, <1>19, <1>20 DEF Next, Main

-----------------------------------------------------------------------------
(***************************************************************************)
(* Types                                                                   *)
(***************************************************************************)

\* Where no call is at work on a descriptor of its own.
NoLocalPlaces == TunPlaces \union LoopPlaces \union {"session_init"}

\* A descriptor that main or a callee holds is open.
OpenInv ==
  /\ DOMAIN table \subseteq 3 .. 8
  /\ {tun_fd, udp_fd, local} \subseteq DOMAIN table \union {NoFd}
  /\ pc \in NoLocalPlaces => local = NoFd

\* A step that leaves the descriptors alone.
LEMMA SameOpen ==
  ASSUME OpenInv, KeepsDescriptors, pc' \in NoLocalPlaces => pc \in NoLocalPlaces
  PROVE  OpenInv'
BY Zenon DEF OpenInv, KeepsDescriptors, descriptors

\* main closes its two descriptors when no other is in use.
LEMMA CloseAllOpen ==
  ASSUME OpenInv, pc \in NoLocalPlaces, CloseAll
  PROVE  OpenInv'
<1>1. DOMAIN table' \subseteq DOMAIN table
  BY Zenon, ClosedTable DEF CloseAll
<1> QED
  BY Zenon, <1>1 DEF OpenInv, CloseAll

\* A callee closes its own descriptor, which is neither of main's.
LEMMA CloseLocalOpen ==
  ASSUME OpenInv, tun_fd = NoFd \/ tun_fd # local, udp_fd = NoFd,
         table' = Closed({local}), local' = NoFd, UNCHANGED <<tun_fd, udp_fd>>
  PROVE  OpenInv'
<1>1. DOMAIN table' = DOMAIN table \ {local}
  BY Zenon, ClosedTable
<1> QED
  BY <1>1 DEF OpenInv

\* Every step keeps what is held open.
LEMMA OpenNext ==
  ASSUME OpenInv, DescriptorInv, [Next]_vars
  PROVE  OpenInv'
<1> USE DEF NoLocalPlaces, TunPlaces, LoopPlaces
<1>1. ASSUME NEW level_env, LogInit(level_env) PROVE OpenInv'
  BY Zenon, <1>1, SameOpen DEF LogInit
<1>2. CASE InstallHandlers
  BY Zenon, <1>2, SameOpen DEF InstallHandlers
<1>3. ASSUME NEW ok \in BOOLEAN, CryptoInit(ok) PROVE OpenInv'
  BY Zenon, <1>3, SameOpen DEF CryptoInit, Return
<1>4. CASE LoadConfig
  <2>1. KeepsDescriptors
    BY Zenon, <1>4 DEF LoadConfig
  <2>2. pc' \notin NoLocalPlaces
    BY Zenon, <1>4, LoadOutcomes
  <2> QED
    BY Zenon, <2>1, <2>2, SameOpen
<1>5. ASSUME NEW call \in DOMAIN OpensAt, NEW ok \in BOOLEAN, NEW e, OpenLocal(call, ok, e)
      PROVE  OpenInv'
  <2>1. pc = call /\ tun_fd' = tun_fd /\ udp_fd' = udp_fd
    BY Zenon, <1>5 DEF OpenLocal
  <2>2. call = "tun_open" \/ call = "tun_configure" \/ call = "udp_bind"
    BY Zenon DEF OpensAt
  <2>3. CASE ok
    <3>1. local' = Free /\ table' = Opened(Opens[call]) /\ pc' = OpensAt[call]
      BY Zenon, <1>5, <2>3 DEF OpenLocal
    <3>2. Free \in 3 .. 8
      BY Zenon, <2>1, <2>2, FreeIsFree DEF DescriptorInv, EarlyPlaces, HoldsTun
    <3>3. DOMAIN table' = DOMAIN table \union {local'}
      BY Zenon, <3>1, OpenedTable
    <3>4. pc' \notin NoLocalPlaces
      BY Zenon, <2>2, <3>1, CallPlaces
    <3> QED
      BY Zenon, <2>1, <3>1, <3>2, <3>3, <3>4 DEF OpenInv
  <2>4. CASE ~ ok
    <3>1. KeepsDescriptors /\ pc' = FailsAt[call]
      BY Zenon, <1>5, <2>1, <2>4 DEF OpenLocal, KeepsDescriptors, descriptors
    <3>2. pc' \in NoLocalPlaces => pc \in NoLocalPlaces
      BY Zenon, <2>1, <2>2, <3>1, CallPlaces
    <3> QED
      BY Zenon, <3>1, <3>2, SameOpen
  <2> QED
    BY Zenon, <2>3, <2>4
<1>6. ASSUME NEW ok \in BOOLEAN, NEW e, NEW closing, SetIff(ok, e, closing)
      PROVE  OpenInv'
  <2>1. pc = "TUNSETIFF" /\ tun_fd = NoFd /\ udp_fd = NoFd
    BY Zenon, <1>6 DEF SetIff, DescriptorInv
  <2>2. CASE ok
    BY Zenon, <1>6, <2>2 DEF SetIff, OpenInv
  <2>3. CASE ~ ok
    BY Zenon, <1>6, <2>1, <2>3, CloseLocalOpen DEF SetIff, FailLocal
  <2> QED
    BY Zenon, <2>2, <2>3
<1>7. ASSUME NEW k \in 1 .. Len(Configuring) - 1, NEW ok \in BOOLEAN, NEW e, NEW closing,
             Configure(k, ok, e, closing)
      PROVE  OpenInv'
  <2>1. pc \in ConfigurePlaces /\ Configuring[k + 1] \in ConfigurePlaces
    BY <1>7, ConfiguringPlaces DEF Configure
  <2>2. udp_fd = NoFd /\ local # tun_fd
    BY Zenon, <2>1 DEF DescriptorInv
  <2>3. CASE ok
    <3>1. KeepsDescriptors /\ pc' \in ConfigurePlaces
      BY Zenon, <1>7, <2>1, <2>3 DEF Configure, KeepsDescriptors
    <3> QED
      BY Zenon, <3>1, SameOpen DEF ConfigurePlaces
  <2>4. CASE ~ ok
    BY Zenon, <1>7, <2>2, <2>4, CloseLocalOpen DEF Configure, FailLocal
  <2> QED
    BY Zenon, <2>3, <2>4
<1>8. CASE EndConfigure
  <2>1. udp_fd = NoFd /\ local # tun_fd
    BY Zenon, <1>8 DEF EndConfigure, DescriptorInv, ConfigurePlaces
  <2> QED
    BY Zenon, <1>8, <2>1, CloseLocalOpen DEF EndConfigure
<1>9. ASSUME NEW ok \in BOOLEAN, NEW e, NEW closing, Bind(ok, e, closing)
      PROVE  OpenInv'
  <2>1. udp_fd = NoFd /\ local # tun_fd
    BY Zenon, <1>9 DEF Bind, DescriptorInv
  <2>2. CASE ok
    BY Zenon, <1>9, <2>2 DEF Bind, OpenInv
  <2>3. CASE ~ ok
    BY Zenon, <1>9, <2>1, <2>3, CloseLocalOpen DEF Bind, FailLocal
  <2> QED
    BY <2>2, <2>3
<1>10. CASE GiveUp
  <2>1. CASE pc = "tun_open failed"
    BY Zenon, <1>10, <2>1, SameOpen DEF GiveUp, Return
  <2>2. CASE pc # "tun_open failed"
    BY Zenon, <1>10, <2>2, CloseAllOpen DEF GiveUp
  <2> QED
    BY Zenon, <2>1, <2>2
<1>11. ASSUME NEW ok \in BOOLEAN, InitSession(ok) PROVE OpenInv'
  <2>1. CASE ok
    BY Zenon, <1>11, <2>1, SameOpen DEF InitSession
  <2>2. CASE ~ ok
    BY Zenon, <1>11, <2>2, CloseAllOpen DEF InitSession
  <2> QED
    BY <2>1, <2>2
<1>12. CASE StartLoop
  BY Zenon, <1>12, SameOpen DEF StartLoop
<1>13. CASE While \/ Poll \/ PollTimeout \/ PollInterrupted \/ Iterate \/ PollReady
  BY Zenon, <1>13, SameOpen DEF While, Poll, PollTimeout, PollInterrupted, Iterate, PollReady,
                         KeepsAllButLoop
<1>14. ASSUME NEW e, PollFails(e) PROVE OpenInv'
  BY Zenon, <1>14, SameOpen DEF PollFails, KeepsAllButLoop
<1>15. CASE Shutdown
  BY Zenon, <1>15, CloseAllOpen DEF Shutdown
<1>16. CASE Signal
  BY Zenon, <1>16, SameOpen DEF Signal
<1>17. CASE UNCHANGED vars
  BY Zenon, <1>17, SameOpen DEF vars, KeepsDescriptors
<1> QED
  BY <1>1, <1>2, <1>3, <1>4, <1>5, <1>6, <1>7, <1>8, <1>9, <1>10, <1>11, <1>12, <1>13,
     <1>14, <1>15, <1>16, <1>17 DEF Next, Main

\* What the other variables hold; peer runs to one past the last of cfg.peers.
PlainInv == handlers \in BOOLEAN /\ peer \in 1 .. CONFIG_MAX_PEERS + 1 /\ status \in {NoFd, 0, 1}

\* The sessions are initialized for the peers that the array has room for.
LEMMA PlainNext ==
  ASSUME PlainInv, ConfigInv, [Next]_vars
  PROVE  PlainInv'
<1>1. CONFIG_MAX_PEERS \in Nat /\ Len(cfg.peers) \in Nat /\ Len(cfg.peers) <= CONFIG_MAX_PEERS
  BY ConfigAssumption DEF ConfigInv, ConfigType, PeersFit
<1>2. ASSUME NEW ok \in BOOLEAN, InitSession(ok) PROVE PlainInv'
  <2>1. peer \in 1 .. CONFIG_MAX_PEERS + 1 /\ peer <= Len(cfg.peers)
    BY <1>2 DEF InitSession, PlainInv
  <2>2. peer + 1 \in 1 .. CONFIG_MAX_PEERS + 1
    BY <1>1, <2>1
  <2>3. /\ handlers' = handlers /\ peer' \in {peer, peer + 1} /\ status' \in {status, 1}
    BY <1>2 DEF InitSession, KeepsLoop, Return
  <2> QED
    BY <2>1, <2>2, <2>3 DEF PlainInv
<1>3. ASSUME ~ \E ok \in BOOLEAN : InitSession(ok)
      PROVE  handlers' \in {handlers, TRUE} /\ peer' = peer /\ status' \in {status, 0, 1}
  BY Zenon, <1>3 DEF Next, Main, LogInit, InstallHandlers, CryptoInit, LoadConfig, OpenLocal, SetIff,
              Configure, EndConfigure, Bind, GiveUp, StartLoop, While, Poll, PollTimeout,
              PollInterrupted, Iterate, Shutdown, PollReady, PollFails, Signal,
              KeepsAllButLoop, KeepsLoop, Return, vars
<1> QED
  BY Zenon, <1>2, <1>3 DEF PlainInv

-----------------------------------------------------------------------------
(***************************************************************************)
(* Theorems                                                                *)
(***************************************************************************)

\* The process starts with nothing open, nothing wrong and the flag up.
LEMMA ProcessInit == Init => ProcessInv
<1> SUFFICES ASSUME Init PROVE ProcessInv
  OBVIOUS
<1>1. DOMAIN table = {}
  BY DEF Init
<1> QED
  BY <1>1 DEF Init, ConfigInit, ProcessInv, DescriptorInv, FileInv, ReportInv, StopInv,
              FailureReported, EarlyPlaces, TunPlaces, ConfigurePlaces, LoopPlaces,
              FailedPlaces, Levels, DEBUG, INFO, ERROR

\* Every step keeps the invariant.
LEMMA ProcessNext == ProcessInv /\ [Next]_vars => ProcessInv'
BY DescriptorNext, FileNext, ReportNext, StopNext DEF ProcessInv

\* In the loop the process holds its device and its socket and nothing else,
\* whichever files and failures came before.
THEOREM TwoDescriptors == Spec => []HoldsTwoDescriptors
<1>1. ProcessInv => HoldsTwoDescriptors
  BY Zenon DEF ProcessInv, DescriptorInv, FileInv, HoldsBoth, HoldsTun, LoopPlaces,
         HoldsTwoDescriptors
<1> QED
  BY <1>1, ProcessInit, ProcessNext, PTL DEF Spec

\* Every way out of main closes what was opened.
THEOREM CleanExit == Spec => []ExitsClean
<1>1. ProcessInv => ExitsClean
  BY Zenon DEF ProcessInv, DescriptorInv, FileInv, ExitsClean
<1> QED
  BY <1>1, ProcessInit, ProcessNext, PTL DEF Spec

\* An exit because of a failure has left its cause on stderr.
THEOREM FailuresReported == Spec => []FailureReported
<1>1. ProcessInv => FailureReported
  BY DEF ProcessInv, ReportInv
<1> QED
  BY <1>1, ProcessInit, ProcessNext, PTL DEF Spec

\* poll is called at most once after a signal.
THEOREM PromptStop == Spec => []StopsPromptly
<1>1. ProcessInv => StopsPromptly
  BY DEF ProcessInv, StopInv, StopsPromptly
<1> QED
  BY <1>1, ProcessInit, ProcessNext, PTL DEF Spec

\* What the process does with its configuration is what config_load does: the
\* theorems about reading a file hold of the daemon that reads it.
THEOREM ReadsConfiguration == Spec => ConfigSpec
<1>1. Init => ConfigInit
  BY Zenon DEF Init
<1>2. [Next]_vars => [config_load]_configVars
  BY OtherSteps, LoadOutcomes
<1> QED
  BY <1>1, <1>2, PTL DEF Spec, ConfigSpec

\* The process opens its device only with a configuration that is complete.
THEOREM RunsComplete == Spec => []AcceptedIsComplete
BY ReadsConfiguration, AcceptedComplete, PTL

\* The descriptors that main and its callees hold are open, and the session being
\* initialized is one of the configuration's, in every state.
THEOREM ProcessTypes == Spec => []TypeOK
<1> DEFINE Inv == ProcessInv /\ ConfigInv /\ OpenInv /\ PlainInv
<1>1. Init => Inv
  <2> SUFFICES ASSUME Init PROVE Inv
    BY Zenon
  <2>1. OpenInv
    BY DEF Init, OpenInv, NoLocalPlaces, TunPlaces, LoopPlaces
  <2>2. PlainInv
    <3>1. handlers \in BOOLEAN /\ peer = 1 /\ status = NoFd
      BY Zenon DEF Init
    <3> QED
      BY <3>1, ConfigAssumption DEF PlainInv
  <2> QED
    BY <2>1, <2>2, ProcessInit, ConfigInitInv DEF Init
<1>2. Inv /\ [Next]_vars => Inv'
  <2>1. [Next]_vars => [config_load]_configVars
    BY OtherSteps, LoadOutcomes
  <2> QED
    BY Zenon, <2>1, ProcessNext, ConfigNextInv, OpenNext, PlainNext DEF ProcessInv
<1>3. Inv => TypeOK
  BY DEF ProcessInv, ReportInv, StopInv, OpenInv, PlainInv, TypeOK
<1> QED
  BY <1>1, <1>2, <1>3, PTL DEF Spec
=============================================================================
