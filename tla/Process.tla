------------------------------ MODULE Process -------------------------------
(***************************************************************************)
(* The process (src/src/main.c): main from its first statement to its      *)
(* exit, with the calls of tun.c and udp.c that open and close descriptors *)
(* and the signals that end it.  What an iteration of the event loop does  *)
(* for the peers is in module Daemon; here it takes its time and returns.  *)
(*                                                                         *)
(* Any call that can fail may fail.  A signal may arrive between any two   *)
(* steps.  The kernel hands out the lowest free descriptor.                *)
(***************************************************************************)
EXTENDS Config, Log

CONSTANTS Errnos   \* values of errno

VARIABLES
  pc,          \* where main is
  g_level,     \* the log level
  handlers,    \* handle_shutdown is installed
  g_running,
  table,       \* table[fd]: what an open descriptor stands for
  tun_fd,      \* tun.fd, and udp.fd below: -1 when there is none
  udp_fd,
  local,       \* fd of tun_open and udp_bind, sock of tun_configure
  errno,
  peer,        \* the peer whose session is initialized next
  status,      \* what main returns
  cause,       \* history: errno of the call that failed
  told,        \* history: the reason for giving up that stderr got
  polls        \* history: calls of poll since g_running is 0, up to 2

descriptors == <<table, tun_fd, udp_fd, local>>
vars == <<configVars, pc, g_level, handlers, g_running, descriptors, errno, peer,
          status, cause, told, polls>>

Nothing == "nothing"   \* no errno, nothing told
NoFd    == -1

ASSUME ErrnosAssumption == Nothing \notin Errnos

Free == CHOOSE fd \in 3 .. 8 : /\ fd \notin DOMAIN table
                               /\ \A lower \in 3 .. fd - 1 : lower \in DOMAIN table
Opened(what) == [fd \in DOMAIN table \union {Free} |-> IF fd = Free THEN what ELSE table[fd]]
Closed(fds)  == [fd \in DOMAIN table \ fds |-> table[fd]]

LogError(reason) ==
  told' = IF log_level_enabled(g_level, ERROR) /\ Stream(ERROR) = "stderr"
          THEN reason ELSE told

Return(value) == pc' = "exited" /\ status' = value

\* What a step of each kind leaves alone.
KeepsConfig      == UNCHANGED configVars
KeepsDescriptors == UNCHANGED descriptors
KeepsLoop        == UNCHANGED <<g_level, handlers, g_running, polls>>
KeepsReport      == UNCHANGED <<errno, cause, told>>

-----------------------------------------------------------------------------
(***************************************************************************)
(* Startup: main, lines 218 to 241                                         *)
(***************************************************************************)
LogInit(level_env) ==
  /\ pc = "log_init"
  /\ g_level' = log_init(level_env)
  /\ pc' = "sigaction"
  /\ UNCHANGED <<handlers, g_running, polls, peer, status>>
  /\ KeepsConfig /\ KeepsDescriptors /\ KeepsReport

InstallHandlers ==
  /\ pc = "sigaction"
  /\ handlers' = TRUE
  /\ pc' = "crypto_init"
  /\ UNCHANGED <<g_level, g_running, polls, peer, status>>
  /\ KeepsConfig /\ KeepsDescriptors /\ KeepsReport

CryptoInit(ok) ==
  /\ pc = "crypto_init"
  /\ IF ok THEN pc' = "config_load" /\ UNCHANGED <<status, told>>
           ELSE Return(1) /\ LogError("crypto")
  /\ UNCHANGED <<errno, cause, peer>>
  /\ KeepsConfig /\ KeepsDescriptors /\ KeepsLoop

\* config_load writes why it fails to stderr itself.
LoadConfig ==
  /\ pc = "config_load"
  /\ config_load
  /\ \/ result' = "loaded" /\ pc' = "tun_open" /\ UNCHANGED <<status, told>>
     \/ result' = "failed" /\ Return(1) /\ told' = "config"
     \/ result' = "reading" /\ UNCHANGED <<pc, status, told>>
  /\ UNCHANGED <<errno, cause, peer>>
  /\ KeepsDescriptors /\ KeepsLoop

-----------------------------------------------------------------------------
(***************************************************************************)
(* tun_open, tun_configure, udp_bind                                       *)
(***************************************************************************)

\* The first call of each, which opens its local descriptor.
OpensAt == [tun_open |-> "TUNSETIFF", tun_configure |-> "ifr_addr", udp_bind |-> "bind"]
FailsAt == [tun_open |-> "tun_open failed", tun_configure |-> "tun_configure failed",
            udp_bind |-> "udp_bind failed"]
Opens   == [tun_open |-> "tun", tun_configure |-> "socket", udp_bind |-> "udp"]

OpenLocal(call, ok, e) ==
  /\ pc = call
  /\ IF ok THEN /\ local' = Free /\ table' = Opened(Opens[call])
                /\ pc' = OpensAt[call]
                /\ UNCHANGED <<errno, cause>>
           ELSE /\ errno' = e /\ cause' = e
                /\ pc' = FailsAt[call]
                /\ UNCHANGED <<local, table>>
  /\ UNCHANGED <<tun_fd, udp_fd, peer, status, told>>
  /\ KeepsConfig /\ KeepsLoop

\* Mutant: close may leave an errno of its own.
Clobbered(e, closing) == closing
\* errno after a call failed with e and close left closing: saved_errno.
Restored(e, closing) == e

FailLocal(call, e, closing) ==
  /\ table' = Closed({local}) /\ local' = NoFd
  /\ errno' = Restored(e, closing) /\ cause' = e
  /\ pc' = FailsAt[call]
  /\ UNCHANGED <<tun_fd, udp_fd>>

\* Mutant: the device gets the descriptor before it is known to be one.
SetIffEarly(ok, e, closing) ==
  /\ pc = "TUNSETIFF"
  /\ tun_fd' = local
  /\ IF ok THEN /\ local' = NoFd
                /\ pc' = "tun_configure"
                /\ UNCHANGED <<table, errno, cause>>
           ELSE /\ table' = Closed({local}) /\ local' = NoFd
                /\ errno' = e /\ cause' = e
                /\ pc' = "tun_open failed"
  /\ UNCHANGED <<udp_fd, peer, status, told>>
  /\ KeepsConfig /\ KeepsLoop
SetIff(ok, e, closing) ==
  /\ pc = "TUNSETIFF"
  /\ IF ok THEN /\ tun_fd' = local /\ local' = NoFd
                /\ pc' = "tun_configure"
                /\ UNCHANGED <<table, udp_fd, errno, cause>>
           ELSE FailLocal("tun_open", e, closing)
  /\ UNCHANGED <<peer, status, told>>
  /\ KeepsConfig /\ KeepsLoop

\* The calls of tun_configure on its socket; set_ifreq_ipv4 fails for a text that
\* is no address.
Configuring == <<"ifr_addr", "SIOCSIFADDR", "ifr_netmask", "SIOCSIFNETMASK",
                 "SIOCGIFFLAGS", "SIOCSIFFLAGS", "close">>
SetIfreq == {"ifr_addr", "ifr_netmask"}

Configure(k, ok, e, closing) ==
  /\ pc = Configuring[k]
  /\ pc \in SetIfreq => ok = (cfg.interface["Address"] # Unset)
  /\ IF ok THEN /\ pc' = Configuring[k + 1]
                /\ UNCHANGED <<descriptors, errno, cause>>
           ELSE FailLocal("tun_configure", e, closing)
  /\ UNCHANGED <<peer, status, told>>
  /\ KeepsConfig /\ KeepsLoop

\* Mutant: the socket stays open when all went well.
EndConfigureOpen ==
  /\ pc = "close"
  /\ local' = NoFd
  /\ pc' = "udp_bind"
  /\ UNCHANGED <<table, tun_fd, udp_fd, peer, status>>
  /\ KeepsConfig /\ KeepsLoop /\ KeepsReport
EndConfigure ==
  /\ pc = "close"
  /\ table' = Closed({local}) /\ local' = NoFd
  /\ pc' = "udp_bind"
  /\ UNCHANGED <<tun_fd, udp_fd, peer, status>>
  /\ KeepsConfig /\ KeepsLoop /\ KeepsReport

Bind(ok, e, closing) ==
  /\ pc = "bind"
  /\ IF ok THEN /\ udp_fd' = local /\ local' = NoFd
                /\ pc' = "session_init"
                /\ UNCHANGED <<table, tun_fd, errno, cause>>
           ELSE FailLocal("udp_bind", e, closing)
  /\ UNCHANGED <<peer, status, told>>
  /\ KeepsConfig /\ KeepsLoop

-----------------------------------------------------------------------------
(***************************************************************************)
(* main's answers to failures, and the sessions                            *)
(***************************************************************************)

\* Mutant: what is open stays open.
CloseNone == KeepsDescriptors
\* udp_close and tun_close, which leave a descriptor of -1 alone.
CloseAll ==
  /\ table' = Closed({tun_fd, udp_fd})
  /\ tun_fd' = NoFd /\ udp_fd' = NoFd
  /\ UNCHANGED local

\* main does not call tun_close when tun_open failed: there is nothing to close.
GiveUp ==
  /\ pc \in {"tun_open failed", "tun_configure failed", "udp_bind failed"}
  /\ LogError(errno)
  /\ IF pc = "tun_open failed" THEN KeepsDescriptors ELSE CloseAll
  /\ Return(1)
  /\ UNCHANGED <<errno, cause, peer>>
  /\ KeepsConfig /\ KeepsLoop

InitSession(ok) ==
  /\ pc = "session_init"
  /\ peer <= Len(cfg.peers)
  /\ IF ok THEN peer' = peer + 1 /\ KeepsDescriptors /\ UNCHANGED <<pc, status, told>>
           ELSE LogError("session") /\ CloseAll /\ Return(1) /\ UNCHANGED peer
  /\ UNCHANGED <<errno, cause>>
  /\ KeepsConfig /\ KeepsLoop

StartLoop ==
  /\ pc = "session_init"
  /\ peer > Len(cfg.peers)
  /\ pc' = "while"
  /\ UNCHANGED <<peer, status>>
  /\ KeepsConfig /\ KeepsDescriptors /\ KeepsLoop /\ KeepsReport

-----------------------------------------------------------------------------
(***************************************************************************)
(* The event loop, signals and the way out                                 *)
(***************************************************************************)
KeepsAllButLoop == KeepsConfig /\ KeepsDescriptors /\ UNCHANGED <<peer, g_level, handlers>>

\* Mutant: only poll's EINTR is a reason to look at the flag.
WhileTrue ==
  /\ pc = "while"
  /\ pc' = "poll"
  /\ UNCHANGED <<g_running, polls, status>>
  /\ KeepsAllButLoop /\ KeepsReport
While ==
  /\ pc = "while"
  /\ pc' = IF g_running THEN "poll" ELSE "shutdown"
  /\ UNCHANGED <<g_running, polls, status>>
  /\ KeepsAllButLoop /\ KeepsReport

\* poll starts to wait.
Poll ==
  /\ pc = "poll"
  /\ pc' = "polling"
  /\ polls' = IF g_running \/ polls = 2 THEN polls ELSE polls + 1
  /\ UNCHANGED <<g_running, status>>
  /\ KeepsAllButLoop /\ KeepsReport

\* Mutant: poll waits without a limit.
PollForever ==
  /\ pc = "polling" /\ ~ handlers
  /\ UNCHANGED vars
\* POLL_TIMEOUT_MS have passed.
PollTimeout ==
  /\ pc = "polling"
  /\ pc' = "iteration"
  /\ UNCHANGED <<g_running, polls, status>>
  /\ KeepsAllButLoop /\ KeepsReport

\* A packet or a datagram has come.
PollReady ==
  /\ pc = "polling"
  /\ pc' = "iteration"
  /\ UNCHANGED <<g_running, polls, status>>
  /\ KeepsAllButLoop /\ KeepsReport

PollInterrupted ==
  /\ pc = "EINTR"
  /\ pc' = "while"
  /\ UNCHANGED <<g_running, polls, status>>
  /\ KeepsAllButLoop /\ KeepsReport

PollFails(e) ==
  /\ pc = "polling"
  /\ errno' = e /\ cause' = e
  /\ LogError(e)
  /\ pc' = "shutdown"
  /\ UNCHANGED <<g_running, polls, status>>
  /\ KeepsAllButLoop

\* The TUN device, the socket and the timers: module Daemon.
Iterate ==
  /\ pc = "iteration"
  /\ pc' = "while"
  /\ UNCHANGED <<g_running, polls, status>>
  /\ KeepsAllButLoop /\ KeepsReport

Shutdown ==
  /\ pc = "shutdown"
  /\ CloseAll
  /\ Return(0)
  /\ UNCHANGED peer
  /\ KeepsConfig /\ KeepsLoop /\ KeepsReport

Ended == pc \in {"exited", "killed"}

\* SIGINT or SIGTERM: handle_shutdown, once it is installed.
Signal ==
  /\ ~ Ended
  /\ IF handlers
     THEN /\ g_running' = FALSE
          /\ pc' = IF pc = "polling" THEN "EINTR" ELSE pc
     ELSE pc' = "killed" /\ UNCHANGED g_running
  /\ UNCHANGED <<g_level, handlers, polls, peer, status>>
  /\ KeepsConfig /\ KeepsDescriptors /\ KeepsReport

-----------------------------------------------------------------------------
Init ==
  /\ ConfigInit
  /\ pc = "log_init"
  /\ g_level = INFO /\ handlers = FALSE /\ g_running = TRUE
  /\ table = <<>> /\ tun_fd = NoFd /\ udp_fd = NoFd /\ local = NoFd
  /\ errno = Nothing /\ peer = 1 /\ status = NoFd
  /\ cause = Nothing /\ told = Nothing /\ polls = 0

Main ==
  \/ \E level_env \in DOMAIN LevelNames \union {"typo"} : LogInit(level_env)
  \/ InstallHandlers
  \/ \E ok \in BOOLEAN : CryptoInit(ok)
  \/ LoadConfig
  \/ \E call \in DOMAIN OpensAt, ok \in BOOLEAN, e \in Errnos : OpenLocal(call, ok, e)
  \/ \E ok \in BOOLEAN, e, closing \in Errnos : SetIff(ok, e, closing)
  \/ \E k \in 1 .. Len(Configuring) - 1, ok \in BOOLEAN, e, closing \in Errnos :
       Configure(k, ok, e, closing)
  \/ EndConfigure
  \/ \E ok \in BOOLEAN, e, closing \in Errnos : Bind(ok, e, closing)
  \/ GiveUp
  \/ \E ok \in BOOLEAN : InitSession(ok)
  \/ StartLoop
  \/ While
  \/ Poll
  \/ PollTimeout
  \/ PollInterrupted
  \/ Iterate
  \/ Shutdown

Next ==
  \/ Main
  \/ PollReady
  \/ \E e \in Errnos : PollFails(e)
  \/ Signal

\* main goes on by itself, poll returns at its timeout at the latest.  Nothing is
\* assumed of packets, failures of poll and signals.  A file has an end.
Spec == Init /\ [][Next]_vars /\ WF_vars(Main) /\ WF_vars(LoadConfig /\ EndOfFile)

-----------------------------------------------------------------------------
(***************************************************************************)
(* Properties                                                              *)
(***************************************************************************)

\* The descriptors that main and its callees hold are open, and every variable
\* has its type.
TypeOK ==
  /\ g_level \in Levels /\ handlers \in BOOLEAN /\ g_running \in BOOLEAN
  /\ DOMAIN table \subseteq 3 .. 8
  /\ {tun_fd, udp_fd, local} \subseteq DOMAIN table \union {NoFd}
  /\ peer \in 1 .. CONFIG_MAX_PEERS + 1 /\ status \in {NoFd, 0, 1} /\ polls \in 0 .. 2

\* In the loop the process holds its TUN device and its socket and nothing else:
\* no descriptor of startup is left, and none was closed and given out again.
HoldsTwoDescriptors ==
  pc \in {"while", "poll", "polling", "EINTR", "iteration", "shutdown"} =>
    /\ tun_fd # udp_fd /\ DOMAIN table = {tun_fd, udp_fd}
    /\ table[tun_fd] = "tun" /\ table[udp_fd] = "udp"
    /\ f = "closed"

\* Every way out of main, whichever call failed first, closes what was opened.
ExitsClean == pc = "exited" => DOMAIN table = {} /\ f = "closed"

\* Whoever starts the daemon learns why it ended, at every log level: an exit
\* because of a failure leaves a line on stderr, with the errno of the call that
\* failed and not of the clean-up after it.
FailureReported ==
  (pc = "exited" /\ (status = 1 \/ cause # Nothing)) =>
    told # Nothing /\ (cause # Nothing => told = cause)

\* handle_shutdown only sets a flag, which main looks at before poll: a signal
\* that falls between the two costs one more wait, never two.
StopsPromptly == polls <= 1

\* After a signal the process ends, wherever the signal found it and however
\* busy the network is.
Stops == ~ g_running ~> Ended
=============================================================================
