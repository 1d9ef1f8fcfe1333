-------------------------- MODULE SessionLifecycle --------------------------
(***************************************************************************)
(* Sessions over time: the server's accept loop with a handler per         *)
(* connection, the client's connect loop with its backoff, the heartbeats  *)
(* and silence deadlines of either end, and the status the server shows.   *)
(*                                                                         *)
(* Time advances by Tick.  A connection delivers what is sent on it within *)
(* MaxDelay ticks, or has been cut: then nothing arrives any more, not even*)
(* the end of the stream.  Until a session is established neither end has  *)
(* a timeout; TLS, pairing and Hello / HelloAck are one phase here, whose  *)
(* frames module Pairing takes apart.                                      *)
(***************************************************************************)
EXTENDS Naturals, Sequences

CONSTANTS
  Conns,          \* model bound on connections that exist at a time
  None,           \* no connection
  Period,         \* HEARTBEAT_PERIOD
  Deadline,       \* SILENCE_DEADLINE
  MaxDelay,       \* assumption on the network: ticks a frame takes at most
  BackoffInitial, \* BACKOFF_INITIAL
  BackoffMax,     \* BACKOFF_MAX
  MaxFaults       \* model bound on cuts, failed handshakes, stops and restarts

ASSUME TimingAssumption ==
  /\ None \notin Conns
  /\ Period \in Nat \ {0} /\ Deadline \in Nat /\ MaxDelay \in Nat /\ MaxFaults \in Nat
  /\ BackoffInitial \in Nat \ {0} /\ BackoffMax \in Nat /\ BackoffInitial <= BackoffMax
  /\ Period + MaxDelay < Deadline /\ 2 * MaxDelay < Deadline

VARIABLES
  server,     \* the server process runs
  srv,        \* srv[n]: the handler of connection n
  srvSilence, \* srvSilence[n]: ticks since its deadline watcher was notified
  srvBeat,    \* srvBeat[n]: ticks until it sends a heartbeat
  status,     \* ServerStatus: "idle", "listening" or the connection shown
  cli,        \* the client
  cur,        \* its connection
  cliSilence, \* as srvSilence
  cliBeat,    \* as srvBeat
  wait,       \* ticks until its next attempt to connect
  delay,      \* backoff after the next refused attempt
  cut,        \* cut[n]: the network delivers nothing on n any more
  toSrv,      \* toSrv[n]: ages of the frames on their way to the handler
  toCli,      \* toCli[n]: ages of the frames on their way to the client
  \* history
  faults,     \* faults so far
  cutEarly,   \* a connection was cut before its session was established at both ends
  srvAlone,   \* srvAlone[n]: ticks a session of the server has had no peer, up to TooLong
  cliAlone    \* ticks the client's session has had no peer, up to TooLong

srvVars == <<server, srv, srvSilence, srvBeat, status, srvAlone>>
cliVars == <<cli, cur, cliSilence, cliBeat, wait, delay, cliAlone>>
netVars == <<cut, toSrv, toCli, faults, cutEarly>>
vars == <<srvVars, cliVars, netVars>>

Phase == {"none", "handshake", "session"}

\* More than a deadline and the frames still under way when it began.
TooLong == Deadline + MaxDelay + 1

TypeOK ==
  /\ server \in BOOLEAN /\ srv \in [Conns -> Phase] /\ cli \in Phase
  /\ cur \in Conns \cup {None} /\ (cur = None <=> cli = "none")
  /\ srvSilence \in [Conns -> 0..Deadline] /\ cliSilence \in 0..Deadline
  /\ srvBeat \in [Conns -> 0..Period] /\ cliBeat \in 0..Period
  /\ status \in {"idle", "listening"} \cup Conns
  /\ wait \in 0..BackoffMax /\ delay \in BackoffInitial..BackoffMax
  /\ cut \in [Conns -> BOOLEAN] /\ faults \in 0..MaxFaults /\ cutEarly \in BOOLEAN
  /\ toSrv \in [Conns -> Seq(0..MaxDelay)] /\ toCli \in [Conns -> Seq(0..MaxDelay)]
  /\ srvAlone \in [Conns -> 0..TooLong] /\ cliAlone \in 0..TooLong

Init ==
  /\ server = TRUE /\ status = "listening"
  /\ srv = [n \in Conns |-> "none"]
  /\ srvSilence = [n \in Conns |-> 0] /\ srvBeat = [n \in Conns |-> 0]
  /\ cli = "none" /\ cur = None /\ cliSilence = 0 /\ cliBeat = 0
  /\ wait = 0 /\ delay = BackoffInitial
  /\ cut = [n \in Conns |-> FALSE] /\ faults = 0 /\ cutEarly = FALSE
  /\ toSrv = [n \in Conns |-> <<>>] /\ toCli = [n \in Conns |-> <<>>]
  /\ srvAlone = [n \in Conns |-> 0] /\ cliAlone = 0

Fault == faults < MaxFaults /\ faults' = faults + 1

Smaller(a, b) == IF a < b THEN a ELSE b

-----------------------------------------------------------------------------
(* The ends of a session.                                                   *)

\* Handlers in S go; a connection without a client is then forgotten.
HandlersGo(S) ==
  /\ srv' = [n \in Conns |-> IF n \in S THEN "none" ELSE srv[n]]
  /\ srvSilence' = [n \in Conns |-> IF n \in S THEN 0 ELSE srvSilence[n]]
  /\ srvBeat' = [n \in Conns |-> IF n \in S THEN 0 ELSE srvBeat[n]]
  /\ srvAlone' = [n \in Conns |-> IF n \in S THEN 0 ELSE srvAlone[n]]
  /\ toSrv' = [n \in Conns |-> IF n \in S THEN <<>> ELSE toSrv[n]]
  /\ toCli' = [n \in Conns |-> IF n \in S /\ cur # n THEN <<>> ELSE toCli[n]]
  /\ cut' = [n \in Conns |-> cut[n] /\ (n \notin S \/ cur = n)]
  /\ UNCHANGED <<cliVars, cutEarly>>

\* handle_peer returns, and the task that ran it shows Listening.
HandlerEnds(n) ==
  /\ HandlersGo({n})
  /\ status' = "listening"
  /\ UNCHANGED server

\* run_one_session returns: the client connects again at once.
ClientLeaves ==
  /\ cli' = "none" /\ cur' = None /\ cliSilence' = 0 /\ cliBeat' = 0 /\ cliAlone' = 0
  /\ wait' = 0 /\ delay' = BackoffInitial
  /\ toCli' = [toCli EXCEPT ![cur] = <<>>]
  /\ toSrv' = [toSrv EXCEPT ![cur] = IF srv[cur] = "none" THEN <<>> ELSE @]
  /\ cut' = [cut EXCEPT ![cur] = @ /\ srv[cur] # "none"]
  /\ UNCHANGED <<srvVars, cutEarly>>

-----------------------------------------------------------------------------
(* Connecting.                                                              *)

\* connect_with_backoff succeeds; the accept loop spawns a handler.
Attempt(n) ==
  /\ server /\ cli = "none" /\ wait = 0
  /\ srv[n] = "none"
  /\ cli' = "handshake" /\ cur' = n /\ srv' = [srv EXCEPT ![n] = "handshake"]
  /\ UNCHANGED <<server, srvSilence, srvBeat, status, srvAlone, cliSilence,
                 cliBeat, wait, delay, cliAlone, netVars>>

\* Mutant: the delay doubles for ever.
RefusedUncapped ==
  /\ ~server /\ cli = "none" /\ wait = 0
  /\ wait' = delay /\ delay' = 2 * delay
  /\ UNCHANGED <<srvVars, cli, cur, cliSilence, cliBeat, cliAlone, netVars>>

\* Nobody listens: sleep, and double the delay up to its maximum.
Refused ==
  /\ ~server /\ cli = "none" /\ wait = 0
  /\ wait' = delay /\ delay' = Smaller(2 * delay, BackoffMax)
  /\ UNCHANGED <<srvVars, cli, cur, cliSilence, cliBeat, cliAlone, netVars>>

\* TLS, pairing or Hello fails at the server: a pin mismatch, a wrong code.
HandshakeFails(n) ==
  /\ srv[n] = "handshake" /\ cur = n /\ ~cut[n]
  /\ Fault /\ HandlerEnds(n)

\* Hello arrives, maybe from a client that has left since: HelloAck is sent, the
\* session's tasks start, heartbeat first.
ServerGetsHello(n) ==
  /\ srv[n] = "handshake" /\ ~cut[n]
  /\ srv' = [srv EXCEPT ![n] = "session"]
  /\ status' = n
  /\ toCli' = [toCli EXCEPT ![n] = IF cur = n THEN Append(@, 0) ELSE @]
  /\ UNCHANGED <<server, srvSilence, srvBeat, srvAlone, cliVars, cut, toSrv, faults,
                 cutEarly>>

-----------------------------------------------------------------------------
(* A session: heartbeats, frames, silence.                                  *)

\* heartbeat_producer.  When the outbound channel is full the heartbeat is
\* dropped, and the frames that fill it are what the peer hears instead.
ServerBeats(n) ==
  /\ srv[n] = "session" /\ srvBeat[n] = 0
  /\ srvBeat' = [srvBeat EXCEPT ![n] = Period]
  /\ toCli' = [toCli EXCEPT ![n] = IF cur = n /\ ~cut[n] THEN Append(@, 0) ELSE @]
  /\ UNCHANGED <<server, srv, srvSilence, status, srvAlone, cliVars, cut, toSrv,
                 faults, cutEarly>>

ClientBeats ==
  /\ cli = "session" /\ cliBeat = 0
  /\ cliBeat' = Period
  /\ toSrv' = [toSrv EXCEPT ![cur] =
                 IF srv[cur] = "session" /\ ~cut[cur] THEN Append(@, 0) ELSE @]
  /\ UNCHANGED <<srvVars, cli, cur, cliSilence, wait, delay, cliAlone, cut,
                 toCli, faults, cutEarly>>

\* Mutant: reading a frame does not notify the deadline watcher.
ServerReadsUnnoticed(n) ==
  /\ srv[n] = "session" /\ ~cut[n] /\ toSrv[n] # <<>>
  /\ toSrv' = [toSrv EXCEPT ![n] = Tail(@)]
  /\ UNCHANGED <<srvVars, cliVars, cut, toCli, faults, cutEarly>>

\* reader_task: any frame notifies the deadline watcher.
ServerReads(n) ==
  /\ srv[n] = "session" /\ ~cut[n] /\ toSrv[n] # <<>>
  /\ toSrv' = [toSrv EXCEPT ![n] = Tail(@)]
  /\ srvSilence' = [srvSilence EXCEPT ![n] = 0]
  /\ UNCHANGED <<server, srv, srvBeat, status, srvAlone, cliVars, cut, toCli, faults,
                 cutEarly>>

\* The first frame is the HelloAck, which starts the client's session.
ClientReads ==
  /\ cli # "none" /\ ~cut[cur] /\ toCli[cur] # <<>>
  /\ toCli' = [toCli EXCEPT ![cur] = Tail(@)]
  /\ cli' = "session" /\ cliSilence' = 0
  /\ UNCHANGED <<srvVars, cur, cliBeat, wait, delay, cliAlone, cut, toSrv,
                 faults, cutEarly>>

\* Mutant: an end that hears nothing keeps listening.
ServerDeafens(n) ==
  /\ srv[n] = "session" /\ srvSilence[n] >= Deadline
  /\ srvSilence' = [srvSilence EXCEPT ![n] = 0]
  /\ UNCHANGED <<server, srv, srvBeat, status, srvAlone, cliVars, netVars>>

\* deadline_watcher: the handler's session is over.
ServerDeclaresDead(n) ==
  /\ srv[n] = "session" /\ srvSilence[n] >= Deadline
  /\ HandlerEnds(n)
  /\ UNCHANGED faults

\* Mutant: the same at the client.
ClientDeafens ==
  /\ cli = "session" /\ cliSilence >= Deadline
  /\ cliSilence' = 0
  /\ UNCHANGED <<srvVars, cli, cur, cliBeat, wait, delay, cliAlone, netVars>>

ClientDeclaresDead ==
  /\ cli = "session" /\ cliSilence >= Deadline
  /\ ClientLeaves
  /\ UNCHANGED faults

\* read_frame returns the end of the stream, in whatever phase.
ServerSeesEnd(n) ==
  /\ srv[n] # "none" /\ cur # n /\ ~cut[n] /\ toSrv[n] = <<>>
  /\ HandlerEnds(n)
  /\ UNCHANGED faults

ClientSeesEnd ==
  /\ cli # "none" /\ srv[cur] = "none" /\ ~cut[cur] /\ toCli[cur] = <<>>
  /\ ClientLeaves
  /\ UNCHANGED faults

-----------------------------------------------------------------------------
(* Failures, and time.                                                      *)

ServerStops ==
  /\ server /\ Fault
  /\ HandlersGo(Conns)
  /\ server' = FALSE /\ status' = "idle"

ServerStarts ==
  /\ ~server
  /\ server' = TRUE /\ status' = "listening"
  /\ UNCHANGED <<srv, srvSilence, srvBeat, srvAlone, cliVars, netVars>>

ClientRestarts ==
  /\ cli # "none" /\ Fault
  /\ ClientLeaves

\* A cable, a router, a machine asleep.
Cut(n) ==
  /\ Fault /\ ~cut[n] /\ (srv[n] # "none" \/ cur = n)
  /\ cut' = [cut EXCEPT ![n] = TRUE]
  /\ cutEarly' = (cutEarly \/ srv[n] = "handshake" \/ (cur = n /\ cli = "handshake"))
  /\ toSrv' = [toSrv EXCEPT ![n] = <<>>] /\ toCli' = [toCli EXCEPT ![n] = <<>>]
  /\ UNCHANGED <<srvVars, cliVars>>

Older(ages) == [i \in DOMAIN ages |-> ages[i] + 1]
Punctual(phase, silence, beat) == phase = "session" => silence < Deadline /\ beat > 0
Arrives(ages) == \A i \in DOMAIN ages : ages[i] < MaxDelay

\* Timers fire on time and frames arrive within MaxDelay before time goes on.
Tick ==
  /\ Punctual(cli, cliSilence, cliBeat)
  /\ \A n \in Conns : /\ Punctual(srv[n], srvSilence[n], srvBeat[n])
                      /\ Arrives(toSrv[n]) /\ Arrives(toCli[n])
  /\ srvSilence' = [n \in Conns |-> srvSilence[n] + IF srv[n] = "session" THEN 1 ELSE 0]
  /\ srvBeat' = [n \in Conns |-> srvBeat[n] - IF srv[n] = "session" THEN 1 ELSE 0]
  /\ srvAlone' = [n \in Conns |-> IF srv[n] = "session" /\ (cut[n] \/ cur # n)
                                 THEN Smaller(srvAlone[n] + 1, TooLong) ELSE srvAlone[n]]
  /\ IF cli = "session"
     THEN /\ cliSilence' = cliSilence + 1 /\ cliBeat' = cliBeat - 1
          /\ cliAlone' = IF cut[cur] \/ srv[cur] # "session"
                         THEN Smaller(cliAlone + 1, TooLong) ELSE cliAlone
     ELSE UNCHANGED <<cliSilence, cliBeat, cliAlone>>
  /\ wait' = IF wait = 0 THEN 0 ELSE wait - 1
  /\ toSrv' = [n \in Conns |-> Older(toSrv[n])] /\ toCli' = [n \in Conns |-> Older(toCli[n])]
  /\ UNCHANGED <<server, srv, status, cli, cur, delay, cut, faults, cutEarly>>

-----------------------------------------------------------------------------
HandlerStep(n) ==
  \/ ServerBeats(n) \/ ServerReads(n) \/ ServerDeclaresDead(n) \/ ServerSeesEnd(n)

Next ==
  \/ \E n \in Conns : \/ Attempt(n) \/ HandshakeFails(n) \/ ServerGetsHello(n)
                      \/ HandlerStep(n) \/ Cut(n)
  \/ Refused \/ ClientBeats \/ ClientReads \/ ClientDeclaresDead \/ ClientSeesEnd
  \/ ServerStops \/ ServerStarts \/ ClientRestarts \/ Tick

Spec == Init /\ [][Next]_vars
-----------------------------------------------------------------------------
(* What the lifecycle promises.                                             *)

\* No false alarm: an end declares its peer dead only when the connection was cut
\* or the peer has left it.  Heartbeats, HelloAck and the two deadlines leave
\* enough room for one another, from the first tick of a session on.
NoFalseAlarm ==
  /\ \A n \in Conns : srv[n] = "session" /\ srvSilence[n] >= Deadline =>
       cut[n] \/ cur # n
  /\ cli = "session" /\ cliSilence >= Deadline => cut[cur] \/ srv[cur] # "session"

\* "Either side declares the connection dead after 2 s of silence" (kmwarp-SPEC.md):
\* a session outlives its peer or its connection by a deadline and the frames
\* still under way, however often either end had been left and entered before.
DeadWithinDeadline ==
  /\ \A n \in Conns : srvAlone[n] < TooLong
  /\ cliAlone < TooLong

\* Both ends are in session with each other.
Connected == cli = "session" /\ srv[cur] = "session" /\ ~cut[cur]

\* "UI consumers should always treat the latest watch value as authoritative"
\* (server app.rs, ServerStatus): an established session is the one shown.
StatusTruthful == Connected => status = cur

-----------------------------------------------------------------------------
(* Time goes on, tasks run, launchd starts the server again; faults stop.   *)

Fairness ==
  /\ WF_vars(Tick) /\ WF_vars(ServerStarts) /\ WF_vars(Refused)
  /\ WF_vars(ClientBeats) /\ WF_vars(ClientReads) /\ WF_vars(ClientDeclaresDead)
  /\ WF_vars(ClientSeesEnd) /\ WF_vars(\E n \in Conns : Attempt(n))
  /\ \A n \in Conns : WF_vars(ServerGetsHello(n)) /\ WF_vars(HandlerStep(n))

FairSpec == Spec /\ Fairness

\* After any faults, a cut of an established session among them, the two are in
\* session again, on one connection, and stay: nobody stays behind waiting for a
\* peer that has left, if no connection was cut during a handshake.
ComesBack == []~cutEarly => <>[]Connected

\* "Either side declares the connection dead after 2 s of silence": with cuts
\* during a handshake as well, where no deadline runs.
ComesBackAnyway == <>[]Connected
=============================================================================
