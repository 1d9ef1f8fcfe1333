------------------------------ MODULE Pairing ------------------------------
(***************************************************************************)
(* First contact of clients with a server: TLS by what each side has       *)
(* pinned, the in-stream SPAKE2 pairing when nothing is pinned, and the    *)
(* Hello / HelloAck that opens a session.                                  *)
(*                                                                         *)
(* Pins are on disk and survive restarts; connections are lost by either   *)
(* process's restart or by the network.  No read of this phase has a       *)
(* timeout.  The cryptography is external: two keys are equal exactly when *)
(* the code typed is the code displayed, and only then does an HMAC of the *)
(* other side verify.  A connection's handler at the server outlives the   *)
(* client's end of it until it reads the end of the stream.                *)
(***************************************************************************)
EXTENDS Naturals, Sequences

CONSTANTS
  Clients,  \* client machines, each with its certificate
  Conns,    \* model bound on connections open at a time
  None      \* no client, no connection

ASSUME NoneAssumption == None \notin Clients /\ None \notin Conns

VARIABLES
  srvPin,  \* the server's peer.pin: whose certificate it holds, or None
  cliPin,  \* cliPin[c]: client c's peer.pin holds the server's certificate
  who,     \* who[n]: the client at the other end of connection n
  srv,     \* srv[n]: what the server's handler of n waits for
  cli,     \* cli[c]: what client c waits for
  cur,     \* cur[c]: the connection client c is on
  mode,    \* mode[n]: how the two ends entered n
  agree,   \* agree[n]: the code typed for n is the one displayed
  toSrv,   \* toSrv[n]: frames on their way to the handler
  toCli    \* toCli[n]: frames on their way to the client

pins  == <<srvPin, cliPin>>
vars == <<pins, who, srv, cli, cur, mode, agree, toSrv, toCli>>

Frame == {"SpakeA", "SpakeB", "Cert", "Accepted", "Rejected", "Hello",
          "HelloAck", "eof"}

SrvState == {"none", "awaitB", "awaitCert", "awaitAck", "awaitHello", "session"}
CliState == {"idle", "code", "awaitA", "awaitCert", "awaitAck",
             "awaitHelloAck", "session"}

TypeOK ==
  /\ srvPin \in Clients \cup {None} /\ cliPin \in [Clients -> BOOLEAN]
  /\ who \in [Conns -> Clients \cup {None}] /\ cur \in [Clients -> Conns \cup {None}]
  /\ srv \in [Conns -> SrvState] /\ cli \in [Clients -> CliState]
  /\ mode \in [Conns -> {"pairing", "pinned", "mixed"}]
  /\ agree \in [Conns -> BOOLEAN]
  /\ toSrv \in [Conns -> Seq(Frame)] /\ toCli \in [Conns -> Seq(Frame)]

Init ==
  /\ srvPin = None /\ cliPin = [c \in Clients |-> FALSE]
  /\ who = [n \in Conns |-> None] /\ cur = [c \in Clients |-> None]
  /\ srv = [n \in Conns |-> "none"] /\ cli = [c \in Clients |-> "idle"]
  /\ mode = [n \in Conns |-> "pinned"] /\ agree = [n \in Conns |-> FALSE]
  /\ toSrv = [n \in Conns |-> <<>>] /\ toCli = [n \in Conns |-> <<>>]

-----------------------------------------------------------------------------
(* One end of a connection reads a frame, answers and goes on.              *)

ClientOn(n) == \E c \in Clients : cur[c] = n

\* The stream q has ended, or frames are sent on it.
Ended(q) == q # <<>> /\ q[Len(q)] = "eof"
Send(q, frames) == IF Ended(q) THEN q ELSE q \o frames

\* The handler of n reads f, sends out and waits in state st; leaving, it
\* closes its end.  What nobody reads any more is forgotten.
SrvReads(n, f, out, st) ==
  /\ toSrv[n] # <<>> /\ Head(toSrv[n]) = f
  /\ srv' = [srv EXCEPT ![n] = st]
  /\ toSrv' = [toSrv EXCEPT ![n] = IF st = "none" THEN <<>> ELSE Tail(@)]
  /\ toCli' = [toCli EXCEPT ![n] =
                 IF ClientOn(n)
                 THEN Send(@, out \o (IF st = "none" THEN <<"eof">> ELSE <<>>))
                 ELSE <<>>]
  /\ UNCHANGED <<who, cli, cur, mode, agree>>

\* The same for client c; leaving, it is ready to connect again.
CliReads(c, f, out, st) ==
  LET n == cur[c] IN
  /\ n # None /\ toCli[n] # <<>> /\ Head(toCli[n]) = f
  /\ cli' = [cli EXCEPT ![c] = st]
  /\ cur' = [cur EXCEPT ![c] = IF st = "idle" THEN None ELSE @]
  /\ toCli' = [toCli EXCEPT ![n] = IF st = "idle" THEN <<>> ELSE Tail(@)]
  /\ toSrv' = [toSrv EXCEPT ![n] =
                 IF srv[n] # "none"
                 THEN Send(@, out \o (IF st = "idle" THEN <<"eof">> ELSE <<>>))
                 ELSE <<>>]
  /\ UNCHANGED <<who, srv, mode, agree>>

\* PinnedCertVerifier: the certificate presented is the pinned one.  There is one
\* server, so a client with a pin has that server's.
PinMatches(pin, c) == pin = c

\* The verifier the server builds for a connection: any certificate will do while
\* nothing is pinned.
Accepts(c) == srvPin = None \/ PinMatches(srvPin, c)

\* A TCP connection and TLS: each end presents its certificate and accepts the
\* pinned one only, or any while it has no pin.  The pin decides there and then
\* whether this end pairs.  A refused handshake changes nothing.
Connect(c, n) ==
  /\ cur[c] = None /\ srv[n] = "none" /\ ~ClientOn(n)
  /\ Accepts(c)
  /\ who' = [who EXCEPT ![n] = c] /\ cur' = [cur EXCEPT ![c] = n]
  /\ srv' = [srv EXCEPT ![n] = IF srvPin = None THEN "awaitB" ELSE "awaitHello"]
  /\ toCli' = [toCli EXCEPT ![n] = IF srvPin = None THEN <<"SpakeA">> ELSE <<>>]
  /\ cli' = [cli EXCEPT ![c] = IF cliPin[c] THEN "awaitHelloAck" ELSE "code"]
  /\ toSrv' = [toSrv EXCEPT ![n] = IF cliPin[c] THEN <<"Hello">> ELSE <<>>]
  /\ mode' = [mode EXCEPT ![n] = IF (srvPin = None) = cliPin[c] THEN "mixed"
                                 ELSE IF srvPin = None THEN "pairing"
                                 ELSE "pinned"]
  /\ agree' = [agree EXCEPT ![n] = FALSE]
  /\ UNCHANGED pins

\* The operator types the code displayed for this connection, or another; the
\* client reads nothing until then.
TypeCode(c, right) ==
  /\ cli[c] = "code"
  /\ right => srv[cur[c]] = "awaitB"
  /\ cli' = [cli EXCEPT ![c] = "awaitA"]
  /\ agree' = [agree EXCEPT ![cur[c]] = right]
  /\ UNCHANGED <<pins, who, srv, cur, mode, toSrv, toCli>>

-----------------------------------------------------------------------------
(* run_server_pairing_flow and the Hello of handle_peer.                    *)

ServerGetsB(n) ==
  /\ srv[n] = "awaitB" /\ SrvReads(n, "SpakeB", <<"Cert">>, "awaitCert")
  /\ UNCHANGED pins

\* Mutant: the acceptance is left to the client.
ServerGetsCertSilently(n) ==
  /\ srv[n] = "awaitCert" /\ agree[n]
  /\ SrvReads(n, "Cert", <<>>, "awaitAck")
  /\ srvPin' = who[n]
  /\ UNCHANGED cliPin

\* Mutant: what is stored is not the client's certificate.
ServerPinsConnection(n) ==
  /\ srv[n] = "awaitCert" /\ agree[n]
  /\ SrvReads(n, "Cert", <<"Accepted">>, "awaitAck")
  /\ srvPin' = n
  /\ UNCHANGED cliPin

\* Mutant: the pin is never stored.
ServerGetsCertUnpinned(n) ==
  /\ srv[n] = "awaitCert" /\ agree[n]
  /\ SrvReads(n, "Cert", <<"Accepted">>, "awaitAck")
  /\ UNCHANGED pins

\* The HMAC verifies: the pin is stored, then the acceptance is sent.
ServerGetsCert(n) ==
  /\ srv[n] = "awaitCert" /\ agree[n]
  /\ SrvReads(n, "Cert", <<"Accepted">>, "awaitAck")
  /\ srvPin' = who[n]
  /\ UNCHANGED cliPin

ServerRefusesCert(n) ==
  /\ srv[n] = "awaitCert" /\ ~agree[n]
  /\ SrvReads(n, "Cert", <<"Rejected">>, "none")
  /\ UNCHANGED pins

ServerGetsAck(n) ==
  /\ srv[n] = "awaitAck" /\ SrvReads(n, "Accepted", <<>>, "awaitHello")
  /\ UNCHANGED pins

ServerGetsHello(n) ==
  /\ srv[n] = "awaitHello" /\ SrvReads(n, "Hello", <<"HelloAck">>, "session")
  /\ UNCHANGED pins

SrvExpects(st) ==
  CASE st = "awaitB"     -> {"SpakeB"}
    [] st = "awaitCert"  -> {"Cert"}
    [] st = "awaitAck"   -> {"Accepted"}
    [] st = "awaitHello" -> {"Hello"}
    [] OTHER             -> {}

\* Any other frame, a rejection or the end of the stream ends the attempt; the
\* first two reads of the pairing answer an unexpected frame with a rejection.
ServerGivesUp(n) ==
  /\ srv[n] # "none"
  /\ \E f \in Frame \ SrvExpects(srv[n]) :
       SrvReads(n, f, IF srv[n] \in {"awaitB", "awaitCert"}
                         /\ f \notin {"Rejected", "eof"}
                      THEN <<"Rejected">> ELSE <<>>, "none")
  /\ UNCHANGED pins

-----------------------------------------------------------------------------
(* run_client_pairing_flow and the HelloAck of run_one_session.             *)

\* Mutant: the certificate goes out ahead of the SPAKE2 element.
ClientGetsAReversed(c) ==
  /\ cli[c] = "awaitA"
  /\ CliReads(c, "SpakeA", <<"Cert", "SpakeB">>, "awaitCert")
  /\ UNCHANGED pins

ClientGetsA(c) ==
  /\ cli[c] = "awaitA"
  /\ CliReads(c, "SpakeA", <<"SpakeB", "Cert">>, "awaitCert")
  /\ UNCHANGED pins

\* A code that is not six digits fails only here, and closes without a word.
ClientHasBadCode(c) ==
  /\ cli[c] = "awaitA" /\ ~agree[cur[c]]
  /\ CliReads(c, "SpakeA", <<>>, "idle")
  /\ UNCHANGED pins

ClientGetsCert(c) ==
  /\ cli[c] = "awaitCert" /\ agree[cur[c]]
  /\ CliReads(c, "Cert", <<"Accepted">>, "awaitAck")
  /\ cliPin' = [cliPin EXCEPT ![c] = TRUE]
  /\ UNCHANGED srvPin

ClientRefusesCert(c) ==
  /\ cli[c] = "awaitCert" /\ ~agree[cur[c]]
  /\ CliReads(c, "Cert", <<"Rejected">>, "idle")
  /\ UNCHANGED pins

ClientGetsAck(c) ==
  /\ cli[c] = "awaitAck" /\ CliReads(c, "Accepted", <<"Hello">>, "awaitHelloAck")
  /\ UNCHANGED pins

ClientGetsHelloAck(c) ==
  /\ cli[c] = "awaitHelloAck" /\ CliReads(c, "HelloAck", <<>>, "session")
  /\ UNCHANGED pins

CliExpects(st) ==
  CASE st = "awaitA"        -> {"SpakeA"}
    [] st = "awaitCert"     -> {"Cert"}
    [] st = "awaitAck"      -> {"Accepted"}
    [] st = "awaitHelloAck" -> {"HelloAck"}
    [] OTHER                -> {}

ClientGivesUp(c) ==
  /\ cli[c] \notin {"idle", "code"}
  /\ \E f \in Frame \ CliExpects(cli[c]) :
       CliReads(c, f, IF cli[c] \in {"awaitA", "awaitCert"}
                         /\ f \notin {"Rejected", "eof"}
                      THEN <<"Rejected">> ELSE <<>>, "idle")
  /\ UNCHANGED pins

\* The operator cancels the dialog, or the client process restarts.
ClientLeaves(c) ==
  /\ cur[c] # None
  /\ LET n == cur[c] IN
     /\ cli' = [cli EXCEPT ![c] = "idle"] /\ cur' = [cur EXCEPT ![c] = None]
     /\ toCli' = [toCli EXCEPT ![n] = <<>>]
     /\ toSrv' = [toSrv EXCEPT ![n] = IF srv[n] = "none" THEN <<>>
                                      ELSE Send(@, <<"eof">>)]
  /\ UNCHANGED <<pins, who, srv, mode, agree>>

-----------------------------------------------------------------------------
(* Failures.                                                                *)

Prefixes(s) == {SubSeq(s, 1, k) : k \in 0..Len(s)}

\* The network drops connection n: each end reads what had arrived, then the
\* end of the stream.
Drop(n) ==
  /\ ClientOn(n) /\ srv[n] # "none"
  /\ ~Ended(toSrv[n]) /\ ~Ended(toCli[n])
  /\ \E s \in Prefixes(toSrv[n]), t \in Prefixes(toCli[n]) :
       /\ toSrv' = [toSrv EXCEPT ![n] = Append(s, "eof")]
       /\ toCli' = [toCli EXCEPT ![n] = Append(t, "eof")]
  /\ UNCHANGED <<pins, who, srv, cli, cur, mode, agree>>

\* The server restarts: every handler is gone, the pin is not.
ServerRestarts ==
  /\ \E n \in Conns : srv[n] # "none"
  /\ srv' = [n \in Conns |-> "none"]
  /\ toSrv' = [n \in Conns |-> <<>>]
  /\ toCli' = [n \in Conns |-> IF ClientOn(n) /\ srv[n] # "none"
                               THEN Send(toCli[n], <<"eof">>) ELSE toCli[n]]
  /\ UNCHANGED <<pins, who, cli, cur, mode, agree>>

-----------------------------------------------------------------------------
ServerStep(n) ==
  \/ ServerGetsB(n) \/ ServerGetsCert(n) \/ ServerRefusesCert(n)
  \/ ServerGetsAck(n) \/ ServerGetsHello(n) \/ ServerGivesUp(n)

ClientStep(c) ==
  \/ ClientGetsA(c) \/ ClientHasBadCode(c) \/ ClientGetsCert(c)
  \/ ClientRefusesCert(c) \/ ClientGetsAck(c) \/ ClientGetsHelloAck(c)
  \/ ClientGivesUp(c)

Next ==
  \/ \E n \in Conns : ServerStep(n) \/ Drop(n)
  \/ \E c \in Clients : ClientStep(c) \/ ClientLeaves(c)
  \/ \E c \in Clients, n \in Conns : Connect(c, n)
  \/ \E c \in Clients, right \in BOOLEAN : TypeCode(c, right)
  \/ ServerRestarts

Spec == Init /\ [][Next]_vars
-----------------------------------------------------------------------------
(* What first contact promises.                                             *)

\* Two ends that entered a connection the same way never show each other a
\* frame out of place: the order of sends and reads of the two pairing flows
\* (pairing.rs of either side, and Hello / HelloAck) fit, wrong codes included.
NoSurprise ==
  \A n \in Conns : mode[n] # "mixed" =>
    /\ srv[n] # "none" /\ toSrv[n] # <<>> =>
         Head(toSrv[n]) \in SrvExpects(srv[n]) \cup {"Rejected", "eof"}
    /\ \A c \in Clients :
         cur[c] = n /\ cli[c] # "code" /\ toCli[n] # <<>> =>
           Head(toCli[n]) \in CliExpects(cli[c]) \cup {"Rejected", "eof"}

\* Both ends of connection n wait for a frame and none is under way.
Standoff(n) ==
  /\ srv[n] \notin {"none", "session"} /\ toSrv[n] = <<>> /\ toCli[n] = <<>>
  /\ \E c \in Clients : cur[c] = n /\ cli[c] \notin {"code", "session"}

\* Nor do they wait for each other: no read of this phase has a timeout, so a
\* standoff would last until somebody restarts a process.
SameModeProgress == \A n \in Conns : mode[n] # "mixed" => ~Standoff(n)

\* A session stands on two pins, whichever attempt crashed or was overtaken
\* before: its ends can meet again without a code, unless the pairing of another
\* client replaces the server's pin.
SessionIsMutual ==
  \A n \in Conns, c \in Clients :
    srv[n] = "session" /\ cur[c] = n => cliPin[c] /\ srvPin # None

\* "Fails -> drop the session; the client will reconnect and re-pair" (app.rs,
\* handle_peer): an attempt can always go on or fail.
NoStandoff == \A n \in Conns : ~Standoff(n)

\* "A half-completed pairing leaves disk clean" (server net/pairing.rs): once
\* nothing is connected, one side has a pin only if the other has.
HalfPairingLeavesDiskClean ==
  (\A n \in Conns : srv[n] = "none" /\ ~ClientOn(n)) =>
    \A c \in Clients : cliPin[c] <=> srvPin = c

\* "Paired client reconnects without prompting" (kmwarp-SPEC.md, M9): a client
\* in a session can come back.
PairedClientCanReturn ==
  \A n \in Conns, c \in Clients :
    cur[c] = n /\ cli[c] = "session" /\ srv[n] = "session" => srvPin = c

-----------------------------------------------------------------------------
(* Both programs keep running and the operator answers the prompt; nothing  *)
(* makes a client connect, a process restart or the network fail.           *)

Fairness ==
  /\ \A n \in Conns : WF_vars(ServerStep(n))
  /\ \A c \in Clients : /\ WF_vars(ClientStep(c))
                        /\ WF_vars(\E right \in BOOLEAN : TypeCode(c, right))

FairSpec == Spec /\ Fairness

\* An attempt whose ends entered the same way does not linger: it becomes a
\* session, or the server's handler is gone.
AttemptEnds ==
  \A n \in Conns :
    mode[n] # "mixed" /\ srv[n] \notin {"none", "session"}
      ~> srv[n] \in {"none", "session"} \/ mode[n] = "mixed"
=============================================================================
