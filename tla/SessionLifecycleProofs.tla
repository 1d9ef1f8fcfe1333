----------------------- MODULE SessionLifecycleProofs -----------------------
(***************************************************************************)
(* That an end of a session never declares a live peer dead, and always a  *)
(* dead one within a deadline, for every timing TimingAssumption allows.   *)
(***************************************************************************)
EXTENDS SessionLifecycle, SequenceTheorems, TLAPS

\* What a handler without a session has: nothing to time, and no frame.
Untimed(n) ==
  srv[n] # "session" =>
    srvSilence[n] = 0 /\ srvBeat[n] = 0 /\ srvAlone[n] = 0 /\ toSrv[n] = <<>>

\* A cut connection carries nothing; one the client is not on carries nothing to it
\* and, without a handler, is as new.
Empty(n) ==
  /\ cut[n] => toSrv[n] = <<>> /\ toCli[n] = <<>>
  /\ cur # n => toCli[n] = <<>> /\ (srv[n] = "none" => ~cut[n])

\* Only the HelloAck starts the client's session.
Greeting(n) ==
  srv[n] = "handshake" /\ cur = n => cli = "handshake" /\ toCli[n] = <<>>

\* The handler has heard its client within the longer of a period and a delay before
\* the oldest frame under way; when none is, the next heartbeat is that near.
ServerHears(n) ==
  srv[n] = "session" /\ cur = n /\ ~cut[n] =>
    /\ cli = "handshake" =>
         toCli[n] # <<>> /\ toSrv[n] = <<>> /\ srvSilence[n] <= toCli[n][1]
    /\ cli = "session" /\ toSrv[n] = <<>> =>
         \/ srvSilence[n] + cliBeat <= Period
         \/ cliBeat = 0 /\ srvSilence[n] <= MaxDelay
    /\ cli = "session" /\ toSrv[n] # <<>> =>
         \/ srvSilence[n] <= toSrv[n][1] + Period
         \/ srvSilence[n] <= toSrv[n][1] + MaxDelay

\* The client's side of it, where the HelloAck comes before the first heartbeat.
ClientHears(n) ==
  srv[n] = "session" /\ cur = n /\ ~cut[n] /\ cli = "session" =>
    /\ toCli[n] = <<>> => cliSilence + srvBeat[n] <= Period
    /\ toCli[n] # <<>> => cliSilence <= toCli[n][1] + Period

\* A session without a peer is as old as its silence and the delay of the last frame
\* it can hear, and every frame still under way was sent before.
ServerCounts(n) ==
  srv[n] = "session" =>
    IF cut[n] \/ cur # n
    THEN /\ srvAlone[n] <= srvSilence[n] + MaxDelay
         /\ \A i \in DOMAIN toSrv[n] : srvAlone[n] <= toSrv[n][i]
    ELSE srvAlone[n] = 0

ClientCounts(n) ==
  cur = n /\ cli = "session" =>
    IF cut[n] \/ srv[n] # "session"
    THEN /\ cliAlone <= cliSilence + MaxDelay
         /\ \A i \in DOMAIN toCli[n] : cliAlone <= toCli[n][i]
    ELSE cliAlone = 0

ConnInv(n) ==
  /\ Untimed(n) /\ Empty(n) /\ Greeting(n) /\ ServerHears(n) /\ ClientHears(n)
  /\ ServerCounts(n) /\ ClientCounts(n)

ClientUntimed == cli # "session" => cliSilence = 0 /\ cliBeat = 0 /\ cliAlone = 0

Inv == TypeOK /\ ClientUntimed /\ \A n \in Conns : ConnInv(n)

-----------------------------------------------------------------------------
(* What the three operations on frames under way do to their ages.           *)

Ages == Seq(0..MaxDelay)

LEMMA AgesTyped ==
  /\ <<>> \in Ages
  /\ TypeOK => toSrv \in [Conns -> Ages] /\ toCli \in [Conns -> Ages]
BY DEF TypeOK, Ages

\* The numbers TypeOK bounds, without the sets it bounds them by.
LEMMA Counters ==
  ASSUME TypeOK
  PROVE  /\ cliSilence \in Nat /\ cliBeat \in Nat /\ cliAlone \in Nat
         /\ cliSilence <= Deadline /\ cliBeat <= Period
         /\ \A n \in Conns :
              /\ srvSilence[n] \in Nat /\ srvBeat[n] \in Nat /\ srvAlone[n] \in Nat
              /\ srvSilence[n] <= Deadline /\ srvBeat[n] <= Period
<1>1. cliSilence \in 0..Deadline /\ cliBeat \in 0..Period /\ cliAlone \in 0..TooLong
  BY DEF TypeOK
<1>2. ASSUME NEW n \in Conns
      PROVE  /\ srvSilence[n] \in 0..Deadline /\ srvBeat[n] \in 0..Period
             /\ srvAlone[n] \in 0..TooLong
  BY DEF TypeOK
<1>3. QED
  BY <1>1, <1>2, TimingAssumption DEF TooLong

LEMMA AgesBounded ==
  ASSUME NEW s \in Ages, NEW i \in DOMAIN s
  PROVE  s[i] \in 0..MaxDelay
<1>1. i \in 1..Len(s)
  BY DEF Ages
<1>2. QED
  BY <1>1, ElementOfSeq DEF Ages

LEMMA AgesSent ==
  ASSUME NEW s \in Ages
  PROVE  /\ Append(s, 0) \in Ages /\ Append(s, 0) # <<>>
         /\ Append(s, 0)[1] = IF s = <<>> THEN 0 ELSE s[1]
         /\ \A i \in DOMAIN Append(s, 0) :
              Append(s, 0)[i] = 0 \/ (i \in DOMAIN s /\ Append(s, 0)[i] = s[i])
<1>1. 0 \in 0..MaxDelay
  BY TimingAssumption
<1>2. /\ Len(s) \in Nat /\ Len(Append(s, 0)) = Len(s) + 1
      /\ \A i \in 1..Len(s) : Append(s, 0)[i] = s[i]
      /\ Append(s, 0)[Len(s) + 1] = 0
  BY <1>1 DEF Ages
<1>3. Append(s, 0) \in Ages /\ DOMAIN Append(s, 0) = 1..(Len(s) + 1) /\ DOMAIN s = 1..Len(s)
  BY <1>1 DEF Ages
<1>4. s = <<>> <=> Len(s) = 0
  BY DEF Ages
<1>5. Append(s, 0) # <<>>
  BY <1>2, <1>3 DEF Ages
<1>6. Append(s, 0)[1] = IF s = <<>> THEN 0 ELSE s[1]
  <2>1. CASE s = <<>>
    BY <2>1, <1>2, <1>4
  <2>2. CASE s # <<>>
    <3>1. 1 \in 1..Len(s)
      BY <2>2, <1>2, <1>4
    <3>2. QED
      BY <3>1, <2>2, <1>2
  <2>3. QED
    BY <2>1, <2>2
<1>7. ASSUME NEW i \in DOMAIN Append(s, 0)
      PROVE  Append(s, 0)[i] = 0 \/ (i \in DOMAIN s /\ Append(s, 0)[i] = s[i])
  <2>1. i \in 1..Len(s) \/ i = Len(s) + 1
    BY <1>2, <1>3
  <2>2. QED
    BY <2>1, <1>2, <1>3
<1>8. QED
  BY <1>3, <1>5, <1>6, <1>7

LEMMA AgesRead ==
  ASSUME NEW s \in Ages, s # <<>>
  PROVE  /\ Tail(s) \in Ages /\ 1 \in DOMAIN s /\ s[1] \in 0..MaxDelay
         /\ \A i \in DOMAIN Tail(s) : i + 1 \in DOMAIN s /\ Tail(s)[i] = s[i + 1]
<1>1. /\ Len(s) \in Nat \ {0} /\ DOMAIN s = 1..Len(s)
      /\ \A i \in 1..Len(s) : s[i] \in 0..MaxDelay
  <2>1. s = <<>> <=> Len(s) = 0
    BY DEF Ages
  <2>2. Len(s) \in Nat /\ DOMAIN s = 1..Len(s)
    BY DEF Ages
  <2>3. ASSUME NEW i \in 1..Len(s) PROVE s[i] \in 0..MaxDelay
    BY ElementOfSeq DEF Ages
  <2>4. QED
    BY <2>1, <2>2, <2>3
<1>2. /\ Tail(s) \in Ages /\ Len(Tail(s)) = Len(s) - 1
      /\ \A i \in 1..(Len(s) - 1) : Tail(s)[i] = s[i + 1]
  <2>1. Tail(s) \in Ages /\ Len(Tail(s)) = Len(s) - 1
    BY <1>1 DEF Ages
  <2>2. ASSUME NEW i \in 1..(Len(s) - 1) PROVE Tail(s)[i] = s[i + 1]
    BY <1>1 DEF Ages
  <2>3. QED
    BY <2>1, <2>2
<1>3. DOMAIN Tail(s) = 1..(Len(s) - 1)
  BY <1>2 DEF Ages
<1>4. 1 \in DOMAIN s /\ s[1] \in 0..MaxDelay
  BY <1>1
<1>5. ASSUME NEW i \in DOMAIN Tail(s)
      PROVE  i + 1 \in DOMAIN s /\ Tail(s)[i] = s[i + 1]
  BY <1>1, <1>2, <1>3
<1>6. QED
  BY <1>2, <1>4, <1>5

LEMMA AgesOlder ==
  ASSUME NEW s \in Ages, Arrives(s)
  PROVE  /\ Older(s) \in Ages /\ (Older(s) = <<>> <=> s = <<>>)
         /\ DOMAIN Older(s) = DOMAIN s
         /\ \A i \in DOMAIN s : Older(s)[i] = s[i] + 1
         /\ s # <<>> => 1 \in DOMAIN s
<1>1. DOMAIN Older(s) = 1..Len(s) /\ Len(s) \in Nat /\ DOMAIN s = 1..Len(s)
  BY DEF Older, Ages
<1>2. \A i \in DOMAIN s : Older(s)[i] = s[i] + 1
  BY DEF Older
<1>3. \A i \in 1..Len(s) : Older(s)[i] \in 0..MaxDelay
  BY <1>1, <1>2, TimingAssumption DEF Ages, Arrives
<1>4. Older(s) \in Ages
  <2>1. Older(s) = [i \in 1..Len(s) |-> s[i] + 1]
    BY <1>1 DEF Older
  <2>2. \A i \in 1..Len(s) : s[i] + 1 \in 0..MaxDelay
    BY <1>1, <1>2, <1>3
  <2>3. QED
    BY <1>1, <2>1, <2>2 DEF Ages
<1>5. Older(s) = <<>> <=> s = <<>>
  BY <1>1, <1>4 DEF Ages
<1>6. s # <<>> => 1 \in DOMAIN s
  BY <1>1 DEF Ages
<1>7. QED
  BY <1>1, <1>2, <1>4, <1>5, <1>6

-----------------------------------------------------------------------------
LEMMA Initial == Init => Inv
<1> SUFFICES ASSUME Init PROVE Inv
  OBVIOUS
<1>1. TypeOK
  <2>1. /\ srvSilence \in [Conns -> 0..Deadline] /\ srvBeat \in [Conns -> 0..Period]
        /\ srvAlone \in [Conns -> 0..TooLong]
        /\ cliSilence \in 0..Deadline /\ cliBeat \in 0..Period /\ cliAlone \in 0..TooLong
    BY TimingAssumption DEF Init, TooLong
  <2>2. toSrv \in [Conns -> Ages] /\ toCli \in [Conns -> Ages]
    BY DEF Init, Ages
  <2>3. /\ wait \in 0..BackoffMax /\ delay \in BackoffInitial..BackoffMax
        /\ faults \in 0..MaxFaults
    BY TimingAssumption DEF Init
  <2>4. QED
    BY <2>1, <2>2, <2>3 DEF Init, TypeOK, Phase, Ages
<1>2. ClientUntimed
  BY DEF Init, ClientUntimed
<1>3. ASSUME NEW n \in Conns PROVE ConnInv(n)
  BY TimingAssumption DEF Init, ConnInv, Untimed, Empty, Greeting, ServerHears,
    ClientHears, ServerCounts, ClientCounts
<1>4. QED
  BY <1>1, <1>2, <1>3 DEF Inv

LEMMA AttemptStep ==
  ASSUME Inv, NEW n \in Conns, Attempt(n) PROVE Inv'
<1> USE DEF Inv
<1>1. TypeOK'
  BY TimingAssumption DEF Attempt, TypeOK, Phase, TooLong, netVars
<1>2. ClientUntimed'
  BY DEF Attempt, TypeOK, ClientUntimed
<1>3. ASSUME NEW m \in Conns PROVE ConnInv(m)'
  <2>1. ConnInv(m) /\ ConnInv(n) /\ cur = None /\ cur # m
    BY TimingAssumption DEF TypeOK, Attempt
  <2>2. /\ srv' = [srv EXCEPT ![n] = "handshake"] /\ cli' = "handshake" /\ cur' = n
        /\ UNCHANGED <<srvSilence, srvBeat, srvAlone, cut, toSrv, toCli>>
    BY DEF Attempt, netVars
  <2>3. CASE m = n
    BY <2>1, <2>2, <2>3 DEF TypeOK, Attempt, ConnInv, Untimed, Empty, Greeting, ServerHears,
      ClientHears, ServerCounts, ClientCounts
  <2>4. CASE m # n
    BY <2>1, <2>2, <2>4 DEF TypeOK, ConnInv, Untimed, Empty, Greeting, ServerHears,
      ClientHears, ServerCounts, ClientCounts
  <2>5. QED
    BY <2>3, <2>4
<1>4. QED
  BY <1>1, <1>2, <1>3

\* Handlers go: the client may be left on its connection, in either phase.
LEMMA HandlersGoStep ==
  ASSUME Inv, NEW S \in SUBSET Conns, HandlersGo(S),
         server' \in BOOLEAN, status' \in {"idle", "listening"} \cup Conns,
         faults' \in 0..MaxFaults
  PROVE  Inv'
<1> USE DEF Inv
<1>1. TypeOK'
  <2>1. /\ srv' \in [Conns -> Phase] /\ cut' \in [Conns -> BOOLEAN]
    BY DEF HandlersGo, TypeOK, Phase
  <2>2. /\ srvSilence' \in [Conns -> 0..Deadline] /\ srvBeat' \in [Conns -> 0..Period]
        /\ srvAlone' \in [Conns -> 0..TooLong]
    BY TimingAssumption, SMTT(30) DEF HandlersGo, TypeOK, TooLong
  <2>3. toSrv' \in [Conns -> Ages] /\ toCli' \in [Conns -> Ages]
    BY AgesTyped DEF HandlersGo
  <2>4. QED
    BY <2>1, <2>2, <2>3 DEF HandlersGo, TypeOK, Ages, cliVars
<1>2. ClientUntimed'
  BY DEF HandlersGo, cliVars, ClientUntimed
<1>3. ASSUME NEW m \in Conns PROVE ConnInv(m)'
  <2>1. ConnInv(m)
    OBVIOUS
  <2>2. UNCHANGED <<cli, cur, cliSilence, cliBeat, cliAlone>>
    BY DEF HandlersGo, cliVars
  <2>3. CASE m \in S
    <3>1. /\ srv'[m] = "none" /\ srvSilence'[m] = 0 /\ srvBeat'[m] = 0 /\ srvAlone'[m] = 0
          /\ toSrv'[m] = <<>> /\ toCli'[m] = (IF cur # m THEN <<>> ELSE toCli[m])
          /\ cut'[m] = (cut[m] /\ cur = m)
      BY <2>3 DEF HandlersGo
    <3>2. cur = m => cut'[m] = cut[m]
      BY <3>1 DEF TypeOK
    <3>3. ClientCounts(m)'
      <4>1. SUFFICES ASSUME cur = m, cli = "session", srv[m] = "session", ~cut[m]
                     PROVE  ClientCounts(m)'
        BY <2>1, <2>2, <3>1, <3>2 DEF ConnInv, ClientCounts
      <4>2. cliAlone = 0
        BY <2>1, <4>1 DEF ConnInv, ClientCounts
      <4>3. toCli[m] \in Ages
        BY DEF TypeOK, Ages
      <4>4. \A i \in DOMAIN toCli[m] : cliAlone <= toCli[m][i]
        BY <4>2, <4>3, ElementOfSeq, TimingAssumption DEF Ages
      <4>5. QED
        BY <2>2, <3>1, <3>2, <4>1, <4>2, <4>4, Counters, TimingAssumption DEF ClientCounts
    <3>4. QED
      BY <2>1, <2>2, <3>1, <3>2, <3>3 DEF TypeOK, ConnInv, Untimed, Empty, Greeting,
        ServerHears, ClientHears, ServerCounts
  <2>4. CASE m \notin S
    <3>1. /\ srv'[m] = srv[m] /\ srvSilence'[m] = srvSilence[m] /\ srvBeat'[m] = srvBeat[m]
          /\ srvAlone'[m] = srvAlone[m] /\ toSrv'[m] = toSrv[m] /\ toCli'[m] = toCli[m]
          /\ cut'[m] = cut[m]
      BY <2>4 DEF HandlersGo, TypeOK
    <3>2. QED
      BY <2>1, <2>2, <3>1 DEF ConnInv, Untimed, Empty, Greeting,
        ServerHears, ClientHears, ServerCounts, ClientCounts
  <2>5. QED
    BY <2>3, <2>4
<1>4. QED
  BY <1>1, <1>2, <1>3

\* The client leaves, in either phase; its handler may be in any.
LEMMA ClientLeavesStep ==
  ASSUME Inv, cli # "none", ClientLeaves, faults' \in 0..MaxFaults
  PROVE  Inv'
<1> USE DEF Inv
<1>1. TypeOK'
  <2>1. cut' \in [Conns -> BOOLEAN]
    BY DEF ClientLeaves, TypeOK
  <2>2. /\ cliSilence' \in 0..Deadline /\ cliBeat' \in 0..Period /\ cliAlone' \in 0..TooLong
        /\ wait' \in 0..BackoffMax /\ delay' \in BackoffInitial..BackoffMax
    BY TimingAssumption DEF ClientLeaves, TooLong
  <2>3. toSrv' \in [Conns -> Ages] /\ toCli' \in [Conns -> Ages]
    BY AgesTyped DEF ClientLeaves
  <2>4. QED
    BY <2>1, <2>2, <2>3 DEF ClientLeaves, TypeOK, Phase, Ages, srvVars
<1>2. ClientUntimed'
  BY DEF ClientLeaves, ClientUntimed
<1>3. ASSUME NEW m \in Conns PROVE ConnInv(m)'
  <2>1. ConnInv(m) /\ cur \in Conns
    BY DEF TypeOK
  <2>2. /\ cli' = "none" /\ cur' = None /\ None # m
        /\ UNCHANGED <<srv, srvSilence, srvBeat, srvAlone>>
    BY TimingAssumption DEF ClientLeaves, srvVars
  <2>3. CASE m = cur
    <3>1. /\ toCli'[m] = <<>> /\ toSrv'[m] = (IF srv[m] = "none" THEN <<>> ELSE toSrv[m])
          /\ cut'[m] = (cut[m] /\ srv[m] # "none")
      BY <2>1, <2>3 DEF ClientLeaves, TypeOK
    <3>2. ServerCounts(m)'
      <4>1. SUFFICES ASSUME srv[m] = "session", ~cut[m]
                     PROVE  ServerCounts(m)'
        BY <2>1, <2>2, <2>3, <3>1 DEF ConnInv, ServerCounts
      <4>2. srvAlone[m] = 0
        BY <2>1, <2>3, <4>1 DEF ConnInv, ServerCounts
      <4>3. toSrv[m] \in Ages
        BY AgesTyped
      <4>4. \A i \in DOMAIN toSrv[m] : srvAlone[m] <= toSrv[m][i]
        BY <4>2, <4>3, ElementOfSeq, TimingAssumption DEF Ages
      <4>5. QED
        BY <2>2, <3>1, <4>1, <4>2, <4>4, Counters, TimingAssumption DEF ServerCounts
    <3>3. QED
      BY <2>1, <2>2, <3>1, <3>2 DEF ConnInv, Untimed, Empty, Greeting,
        ServerHears, ClientHears, ClientCounts
  <2>4. CASE m # cur
    <3>1. toSrv'[m] = toSrv[m] /\ toCli'[m] = toCli[m] /\ cut'[m] = cut[m]
      BY <2>4 DEF ClientLeaves, TypeOK
    <3>2. QED
      BY <2>1, <2>2, <2>4, <3>1 DEF ConnInv, Untimed, Empty, Greeting,
        ServerHears, ClientHears, ServerCounts, ClientCounts
  <2>5. QED
    BY <2>3, <2>4
<1>4. QED
  BY <1>1, <1>2, <1>3

LEMMA RefusedStep == ASSUME Inv, Refused PROVE Inv'
<1> USE DEF Inv
<1>1. /\ wait' \in 0..BackoffMax /\ delay' \in BackoffInitial..BackoffMax
  BY TimingAssumption DEF Refused, TypeOK, Smaller
<1>2. TypeOK'
  BY <1>1 DEF Refused, TypeOK, srvVars, netVars
<1>3. ClientUntimed'
  BY DEF Refused, ClientUntimed
<1>4. ASSUME NEW m \in Conns PROVE ConnInv(m)'
  <2>1. ConnInv(m)
    OBVIOUS
  <2>2. QED
    BY <2>1 DEF Refused, srvVars, netVars, ConnInv, Untimed, Empty, Greeting, ServerHears,
      ClientHears, ServerCounts, ClientCounts
<1>5. QED
  BY <1>2, <1>3, <1>4

LEMMA ServerStartsStep == ASSUME Inv, ServerStarts PROVE Inv'
<1> USE DEF Inv
<1>1. TypeOK' /\ ClientUntimed'
  BY DEF ServerStarts, TypeOK, ClientUntimed, cliVars, netVars
<1>2. ASSUME NEW m \in Conns PROVE ConnInv(m)'
  <2>1. ConnInv(m)
    OBVIOUS
  <2>2. QED
    BY <2>1 DEF ServerStarts, cliVars, netVars, ConnInv, Untimed, Empty, Greeting,
      ServerHears, ClientHears, ServerCounts, ClientCounts
<1>3. QED
  BY <1>1, <1>2

LEMMA CutStep == ASSUME Inv, NEW n \in Conns, Cut(n) PROVE Inv'
<1> USE DEF Inv
<1>1. TypeOK'
  <2>1. faults' \in 0..MaxFaults /\ cut' \in [Conns -> BOOLEAN]
    BY TimingAssumption DEF Cut, Fault, TypeOK
  <2>2. toSrv' \in [Conns -> Ages] /\ toCli' \in [Conns -> Ages]
    BY AgesTyped DEF Cut
  <2>3. cutEarly' \in BOOLEAN
    BY DEF Cut, TypeOK
  <2>4. QED
    BY <2>1, <2>2, <2>3 DEF Cut, TypeOK, Ages, srvVars, cliVars
<1>2. ClientUntimed'
  BY DEF Cut, cliVars, ClientUntimed
<1>3. ASSUME NEW m \in Conns PROVE ConnInv(m)'
  <2>1. ConnInv(m)
    OBVIOUS
  <2>2. /\ UNCHANGED <<srv, srvSilence, srvBeat, srvAlone>>
        /\ UNCHANGED <<cli, cur, cliSilence, cliBeat, cliAlone>>
    BY DEF Cut, srvVars, cliVars
  <2>3. CASE m = n
    <3>1. cut'[m] /\ toSrv'[m] = <<>> /\ toCli'[m] = <<>> /\ ~cut[m]
      BY <2>3 DEF Cut, TypeOK
    <3>2. srv[m] # "none" \/ cur = m
      BY <2>3 DEF Cut
    <3>3. DOMAIN <<>> = {}
      OBVIOUS
    <3>4. /\ srvSilence[m] \in Nat /\ srvAlone[m] \in Nat
          /\ cliSilence \in Nat /\ cliAlone \in Nat
      BY Counters
    <3>5. srv[m] = "session" => srvAlone[m] <= srvSilence[m] + MaxDelay
      BY <2>1, <3>1, <3>4, TimingAssumption DEF ConnInv, ServerCounts
    <3>6. cur = m /\ cli = "session" => cliAlone <= cliSilence + MaxDelay
      BY <2>1, <3>1, <3>4, TimingAssumption DEF ConnInv, ClientCounts
    <3>7. ServerCounts(m)' /\ ClientCounts(m)'
      BY <2>2, <3>1, <3>3, <3>5, <3>6 DEF ServerCounts, ClientCounts
    <3>8. QED
      BY <2>1, <2>2, <3>1, <3>2, <3>7 DEF ConnInv, Untimed, Empty, Greeting,
        ServerHears, ClientHears
  <2>4. CASE m # n
    <3>1. toSrv'[m] = toSrv[m] /\ toCli'[m] = toCli[m] /\ cut'[m] = cut[m]
      BY <2>4 DEF Cut, TypeOK
    <3>2. QED
      BY <2>1, <2>2, <3>1 DEF ConnInv, Untimed, Empty, Greeting,
        ServerHears, ClientHears, ServerCounts, ClientCounts
  <2>5. QED
    BY <2>3, <2>4
<1>4. QED
  BY <1>1, <1>2, <1>3

LEMMA ServerGetsHelloStep ==
  ASSUME Inv, NEW n \in Conns, ServerGetsHello(n) PROVE Inv'
<1> USE DEF Inv
<1>1. TypeOK'
  <2>1. srv' \in [Conns -> Phase]
    BY DEF ServerGetsHello, TypeOK, Phase
  <2>2. toCli' \in [Conns -> Ages]
    BY AgesTyped, AgesSent DEF ServerGetsHello
  <2>3. QED
    BY <2>1, <2>2 DEF ServerGetsHello, TypeOK, Ages, cliVars
<1>2. ClientUntimed'
  BY DEF ServerGetsHello, cliVars, ClientUntimed
<1>3. ASSUME NEW m \in Conns PROVE ConnInv(m)'
  <2>1. ConnInv(m)
    OBVIOUS
  <2>2. /\ UNCHANGED <<srvSilence, srvBeat, srvAlone, toSrv, cut>>
        /\ UNCHANGED <<cli, cur, cliSilence, cliBeat, cliAlone>>
    BY DEF ServerGetsHello, cliVars
  <2>3. CASE m = n
    <3>1. /\ srv[m] = "handshake" /\ ~cut[m] /\ srv'[m] = "session"
          /\ toCli'[m] = (IF cur = m THEN Append(toCli[m], 0) ELSE toCli[m])
      BY <2>3 DEF ServerGetsHello, TypeOK
    <3>2. srvSilence[m] = 0 /\ srvBeat[m] = 0 /\ srvAlone[m] = 0 /\ toSrv[m] = <<>>
      BY <2>1, <3>1 DEF ConnInv, Untimed
    <3>3. Append(<<>>, 0) # <<>> /\ Append(<<>>, 0)[1] = 0 /\ DOMAIN <<>> = {}
      BY AgesTyped, AgesSent
    <3>4. cur = m => cli = "handshake" /\ toCli'[m] # <<>> /\ toCli'[m][1] = 0
      BY <2>1, <3>1, <3>3 DEF ConnInv, Greeting
    <3>5. QED
      BY <2>1, <2>2, <3>1, <3>2, <3>3, <3>4, TimingAssumption DEF ConnInv, Untimed, Empty,
        Greeting, ServerHears, ClientHears, ServerCounts, ClientCounts
  <2>4. CASE m # n
    <3>1. srv'[m] = srv[m] /\ toCli'[m] = toCli[m]
      BY <2>4 DEF ServerGetsHello, TypeOK
    <3>2. QED
      BY <2>1, <2>2, <3>1 DEF ConnInv, Untimed, Empty, Greeting,
        ServerHears, ClientHears, ServerCounts, ClientCounts
  <2>5. QED
    BY <2>3, <2>4
<1>4. QED
  BY <1>1, <1>2, <1>3

LEMMA ServerBeatsStep ==
  ASSUME Inv, NEW n \in Conns, ServerBeats(n) PROVE Inv'
<1> USE DEF Inv
<1>1. TypeOK'
  <2>1. srvBeat' \in [Conns -> 0..Period]
    BY TimingAssumption DEF ServerBeats, TypeOK
  <2>2. toCli' \in [Conns -> Ages]
    BY AgesTyped, AgesSent DEF ServerBeats
  <2>3. QED
    BY <2>1, <2>2 DEF ServerBeats, TypeOK, Ages, cliVars
<1>2. ClientUntimed'
  BY DEF ServerBeats, cliVars, ClientUntimed
<1>3. ASSUME NEW m \in Conns PROVE ConnInv(m)'
  <2>1. ConnInv(m)
    OBVIOUS
  <2>2. /\ UNCHANGED <<srv, srvSilence, srvAlone, toSrv, cut>>
        /\ UNCHANGED <<cli, cur, cliSilence, cliBeat, cliAlone>>
    BY DEF ServerBeats, cliVars
  <2>3. CASE m = n /\ cur = m /\ ~cut[m]
    <3>1. /\ srv[m] = "session" /\ srvBeat[m] = 0 /\ srvBeat'[m] = Period
          /\ toCli'[m] = Append(toCli[m], 0)
      BY <2>3 DEF ServerBeats, TypeOK
    <3>2. /\ toCli'[m] # <<>>
          /\ toCli'[m][1] = IF toCli[m] = <<>> THEN 0 ELSE toCli[m][1]
      BY <3>1, AgesTyped, AgesSent
    <3>3. cli = "session" => cliAlone = 0
      BY <2>1, <2>3, <3>1 DEF ConnInv, ClientCounts
    <3>4. ClientHears(m)'
      BY <2>1, <2>2, <2>3, <3>1, <3>2, Counters, TimingAssumption
        DEF ConnInv, ClientHears
    <3>5. ServerHears(m)'
      BY <2>1, <2>2, <2>3, <3>1, <3>2, Counters, TimingAssumption
        DEF ConnInv, ServerHears
    <3>6. QED
      BY <2>1, <2>2, <2>3, <3>1, <3>3, <3>4, <3>5 DEF ConnInv, Untimed, Empty,
        Greeting, ServerCounts, ClientCounts
  <2>4. CASE m # n
    <3>1. srvBeat'[m] = srvBeat[m] /\ toCli'[m] = toCli[m]
      BY <2>4 DEF ServerBeats, TypeOK
    <3>2. QED
      BY <2>1, <2>2, <3>1 DEF ConnInv, Untimed, Empty, Greeting,
        ServerHears, ClientHears, ServerCounts, ClientCounts
  <2>5. CASE m = n /\ (cur # m \/ cut[m])
    <3>1. srv[m] = "session" /\ toCli'[m] = toCli[m]
      BY <2>5 DEF ServerBeats, TypeOK
    <3>2. QED
      BY <2>1, <2>2, <2>5, <3>1 DEF ConnInv, Untimed, Empty, Greeting,
        ServerHears, ClientHears, ServerCounts, ClientCounts
  <2>6. QED
    BY <2>3, <2>4, <2>5
<1>4. QED
  BY <1>1, <1>2, <1>3

LEMMA ClientBeatsStep == ASSUME Inv, ClientBeats PROVE Inv'
<1> USE DEF Inv
<1>1. TypeOK'
  <2>1. cliBeat' \in 0..Period
    BY TimingAssumption DEF ClientBeats
  <2>2. toSrv' \in [Conns -> Ages]
    BY AgesTyped, AgesSent DEF ClientBeats
  <2>3. QED
    BY <2>1, <2>2 DEF ClientBeats, TypeOK, Ages, srvVars
<1>2. ClientUntimed'
  BY DEF ClientBeats, ClientUntimed
<1>3. ASSUME NEW m \in Conns PROVE ConnInv(m)'
  <2>1. ConnInv(m) /\ cur \in Conns
    BY DEF ClientBeats, TypeOK
  <2>2. /\ UNCHANGED <<srv, srvSilence, srvBeat, srvAlone, toCli, cut>>
        /\ UNCHANGED <<cli, cur, cliSilence, cliAlone>>
    BY DEF ClientBeats, srvVars
  <2>3. CASE m = cur /\ srv[m] = "session" /\ ~cut[m]
    <3>1. cli = "session" /\ cliBeat = 0 /\ toSrv'[m] = Append(toSrv[m], 0)
      BY <2>3 DEF ClientBeats, TypeOK
    <3>2. /\ toSrv'[m] # <<>>
          /\ toSrv'[m][1] = IF toSrv[m] = <<>> THEN 0 ELSE toSrv[m][1]
      BY <3>1, AgesTyped, AgesSent
    <3>3. srvAlone[m] = 0
      BY <2>1, <2>3 DEF ConnInv, ServerCounts
    <3>4. ServerHears(m)'
      BY <2>1, <2>2, <2>3, <3>1, <3>2, Counters, TimingAssumption
        DEF ConnInv, ServerHears
    <3>5. QED
      BY <2>1, <2>2, <2>3, <3>3, <3>4 DEF ConnInv, Untimed, Empty,
        Greeting, ClientHears, ServerCounts, ClientCounts
  <2>4. CASE m # cur \/ srv[m] # "session" \/ cut[m]
    <3>1. toSrv'[m] = toSrv[m]
      BY <2>1, <2>4 DEF ClientBeats, TypeOK
    <3>2. QED
      BY <2>1, <2>2, <2>4, <3>1 DEF ConnInv, Untimed, Empty, Greeting,
        ServerHears, ClientHears, ServerCounts, ClientCounts
  <2>5. QED
    BY <2>3, <2>4
<1>4. QED
  BY <1>1, <1>2, <1>3

LEMMA ServerReadsStep ==
  ASSUME Inv, NEW n \in Conns, ServerReads(n) PROVE Inv'
<1> USE DEF Inv
<1>1. TypeOK'
  <2>1. srvSilence' \in [Conns -> 0..Deadline]
    BY TimingAssumption DEF ServerReads, TypeOK
  <2>2. toSrv' \in [Conns -> Ages]
    BY AgesTyped, AgesRead DEF ServerReads
  <2>3. QED
    BY <2>1, <2>2 DEF ServerReads, TypeOK, Ages, cliVars
<1>2. ClientUntimed'
  BY DEF ServerReads, cliVars, ClientUntimed
<1>3. ASSUME NEW m \in Conns PROVE ConnInv(m)'
  <2>1. ConnInv(m)
    OBVIOUS
  <2>2. /\ UNCHANGED <<srv, srvBeat, srvAlone, toCli, cut>>
        /\ UNCHANGED <<cli, cur, cliSilence, cliBeat, cliAlone>>
    BY DEF ServerReads, cliVars
  <2>3. CASE m = n
    <3>1. /\ srv[m] = "session" /\ ~cut[m] /\ toSrv[m] # <<>>
          /\ toSrv'[m] = Tail(toSrv[m]) /\ srvSilence'[m] = 0
      BY <2>3 DEF ServerReads, TypeOK
    <3>2. /\ toSrv[m] \in Ages /\ 1 \in DOMAIN toSrv[m] /\ toSrv[m][1] \in 0..MaxDelay
          /\ toSrv'[m] \in Ages
          /\ \A i \in DOMAIN toSrv'[m] :
               i + 1 \in DOMAIN toSrv[m] /\ toSrv'[m][i] = toSrv[m][i + 1]
      BY <3>1, AgesTyped, AgesRead
    <3>3. ServerHears(m)'
      <4>1. toSrv'[m] # <<>> => toSrv'[m][1] \in 0..MaxDelay
        BY <3>2, AgesRead
      <4>2. cliBeat <= Period /\ cliBeat \in Nat
        BY Counters
      <4>3. cur = m => cli # "handshake"
        BY <2>1, <3>1 DEF ConnInv, ServerHears
      <4>4. srvSilence'[m] + cliBeat' <= Period
        BY <2>2, <3>1, <4>2, TimingAssumption
      <4>5. ASSUME toSrv'[m] # <<>> PROVE srvSilence'[m] <= toSrv'[m][1] + Period
        <5>1. toSrv'[m][1] \in Nat /\ Period \in Nat
          BY <4>1, <4>5, TimingAssumption
        <5>2. srvSilence'[m] = 0
          BY <3>1
        <5>3. QED
          BY <5>1, <5>2
      <4>6. QED
        BY <2>2, <4>3, <4>4, <4>5 DEF ServerHears
    <3>4. ServerCounts(m)'
      <4>1. ~(cur = m) => srvAlone[m] <= toSrv[m][1]
                         /\ \A i \in DOMAIN toSrv'[m] : srvAlone[m] <= toSrv'[m][i]
        BY <2>1, <3>1, <3>2 DEF ConnInv, ServerCounts
      <4>2. cur = m => srvAlone[m] = 0
        BY <2>1, <3>1 DEF ConnInv, ServerCounts
      <4>3. srvAlone[m] \in Nat
        BY Counters
      <4>4. QED
        BY <2>2, <3>1, <3>2, <4>1, <4>2, <4>3, TimingAssumption DEF ServerCounts
    <3>5. QED
      BY <2>1, <2>2, <3>1, <3>3, <3>4 DEF ConnInv, Untimed, Empty, Greeting,
        ClientHears, ClientCounts
  <2>4. CASE m # n
    <3>1. toSrv'[m] = toSrv[m] /\ srvSilence'[m] = srvSilence[m]
      BY <2>4 DEF ServerReads, TypeOK
    <3>2. QED
      BY <2>1, <2>2, <3>1 DEF ConnInv, Untimed, Empty, Greeting,
        ServerHears, ClientHears, ServerCounts, ClientCounts
  <2>5. QED
    BY <2>3, <2>4
<1>4. QED
  BY <1>1, <1>2, <1>3

LEMMA ClientReadsStep == ASSUME Inv, ClientReads PROVE Inv'
<1> USE DEF Inv
<1>1. TypeOK'
  <2>1. cliSilence' \in 0..Deadline
    BY TimingAssumption DEF ClientReads
  <2>2. toCli' \in [Conns -> Ages]
    BY AgesTyped, AgesRead DEF ClientReads
  <2>3. cli' \in Phase /\ cur' = cur /\ cur # None
    BY DEF ClientReads, TypeOK, Phase
  <2>4. QED
    BY <2>1, <2>2, <2>3 DEF ClientReads, TypeOK, Ages, srvVars
<1>2. ClientUntimed'
  BY DEF ClientReads, ClientUntimed
<1>3. ASSUME NEW m \in Conns PROVE ConnInv(m)'
  <2>1. ConnInv(m) /\ cur \in Conns
    BY DEF ClientReads, TypeOK
  <2>2. /\ UNCHANGED <<srv, srvSilence, srvBeat, srvAlone, toSrv, cut>>
        /\ UNCHANGED <<cur, cliBeat, cliAlone>>
        /\ cli' = "session" /\ cliSilence' = 0
    BY DEF ClientReads, srvVars
  <2>3. CASE m = cur
    <3>1. /\ ~cut[m] /\ toCli[m] # <<>> /\ toCli'[m] = Tail(toCli[m])
          /\ cli \in {"handshake", "session"}
      BY <2>1, <2>3 DEF ClientReads, TypeOK, Phase
    <3>2. srv[m] # "handshake"
      BY <2>1, <2>3, <3>1 DEF ConnInv, Greeting
    <3>3. /\ toCli[m] \in Ages /\ 1 \in DOMAIN toCli[m] /\ toCli[m][1] \in 0..MaxDelay
          /\ toCli'[m] \in Ages
          /\ \A i \in DOMAIN toCli'[m] :
               i + 1 \in DOMAIN toCli[m] /\ toCli'[m][i] = toCli[m][i + 1]
      BY <3>1, AgesTyped, AgesRead
    <3>4. /\ srvBeat[m] \in Nat /\ srvBeat[m] <= Period
          /\ srvSilence[m] \in Nat /\ cliAlone \in Nat
      BY Counters
    <3>5. ClientHears(m)'
      <4>1. toCli'[m] # <<>> => toCli'[m][1] \in 0..MaxDelay
        BY <3>3, AgesRead
      <4>2. QED
        BY <2>2, <3>4, <4>1, TimingAssumption DEF ClientHears
    <3>6. ServerHears(m)'
      <4>1. CASE cli = "handshake"
        <5>1. cliBeat = 0
          BY <4>1 DEF ClientUntimed
        <5>2. srv[m] = "session" => toSrv[m] = <<>> /\ srvSilence[m] <= MaxDelay
          BY <2>1, <2>3, <3>1, <3>3, <3>4, <4>1, TimingAssumption DEF ConnInv, ServerHears
        <5>3. QED
          BY <2>2, <2>3, <5>1, <5>2 DEF ServerHears
      <4>2. CASE cli = "session"
        BY <2>1, <2>2, <4>2 DEF ConnInv, ServerHears
      <4>3. QED
        BY <3>1, <4>1, <4>2
    <3>7. ClientCounts(m)'
      <4>1. CASE cli = "handshake"
        <5>1. cliAlone = 0
          BY <4>1 DEF ClientUntimed
        <5>2. \A i \in DOMAIN toCli'[m] : toCli'[m][i] \in 0..MaxDelay
          BY <3>3, AgesBounded
        <5>3. QED
          BY <2>2, <5>1, <5>2, TimingAssumption DEF ClientCounts
      <4>2. CASE cli = "session"
        <5>1. srv[m] # "session" =>
                cliAlone <= toCli[m][1] /\ \A i \in DOMAIN toCli'[m] : cliAlone <= toCli'[m][i]
          BY <2>1, <2>3, <3>3, <4>2 DEF ConnInv, ClientCounts
        <5>2. srv[m] = "session" => cliAlone = 0
          BY <2>1, <2>3, <3>1, <4>2 DEF ConnInv, ClientCounts
        <5>3. QED
          BY <2>2, <3>1, <3>3, <3>4, <5>1, <5>2, TimingAssumption, SMTT(30) DEF ClientCounts
      <4>3. QED
        BY <3>1, <4>1, <4>2
    <3>8. QED
      BY <2>1, <2>2, <2>3, <3>1, <3>2, <3>5, <3>6, <3>7 DEF ConnInv, Untimed, Empty,
        Greeting, ServerCounts
  <2>4. CASE m # cur
    <3>1. toCli'[m] = toCli[m]
      BY <2>1, <2>4 DEF ClientReads, TypeOK
    <3>2. QED
      BY <2>1, <2>2, <2>4, <3>1 DEF ConnInv, Untimed, Empty, Greeting,
        ServerHears, ClientHears, ServerCounts, ClientCounts
  <2>5. QED
    BY <2>3, <2>4
<1>4. QED
  BY <1>1, <1>2, <1>3

\* A tick ages everything alike: silences, sessions without a peer, and frames.
LEMMA TickStep == ASSUME Inv, Tick PROVE Inv'
<1> USE DEF Inv
<1>1. /\ toSrv \in [Conns -> Ages] /\ toCli \in [Conns -> Ages]
      /\ \A n \in Conns : Arrives(toSrv[n]) /\ Arrives(toCli[n])
  BY AgesTyped DEF Tick
<1>2. TypeOK'
  <2>1. toSrv' \in [Conns -> Ages] /\ toCli' \in [Conns -> Ages]
    BY <1>1, AgesOlder DEF Tick
  <2>2. /\ srvSilence' \in [Conns -> 0..Deadline] /\ srvBeat' \in [Conns -> 0..Period]
        /\ srvAlone' \in [Conns -> 0..TooLong]
    <3>1. ASSUME NEW n \in Conns
          PROVE  /\ srvSilence[n] + (IF srv[n] = "session" THEN 1 ELSE 0) \in 0..Deadline
                 /\ srvBeat[n] - (IF srv[n] = "session" THEN 1 ELSE 0) \in 0..Period
                 /\ Smaller(srvAlone[n] + 1, TooLong) \in 0..TooLong
                 /\ srvAlone[n] \in 0..TooLong
      <4>1. /\ srvSilence[n] \in 0..Deadline /\ srvBeat[n] \in 0..Period
            /\ srvAlone[n] \in 0..TooLong
            /\ srv[n] = "session" => srvSilence[n] < Deadline /\ srvBeat[n] > 0
        BY DEF Tick, Punctual, TypeOK
      <4>2. Smaller(srvAlone[n] + 1, TooLong) \in 0..TooLong
        BY <4>1, TimingAssumption DEF Smaller, TooLong
      <4>3. CASE srv[n] = "session"
        BY <4>1, <4>2, <4>3, TimingAssumption
      <4>4. CASE srv[n] # "session"
        BY <4>1, <4>2, <4>4, TimingAssumption
      <4>5. QED
        BY <4>3, <4>4
    <3>2. QED
      BY <3>1 DEF Tick
  <2>3. cliSilence' \in 0..Deadline /\ cliBeat' \in 0..Period
    <3>1. /\ cliSilence \in 0..Deadline /\ cliBeat \in 0..Period
          /\ cli = "session" => cliSilence < Deadline /\ cliBeat > 0
      BY DEF Tick, Punctual, TypeOK
    <3>2. CASE cli = "session"
      <4>1. cliSilence' = cliSilence + 1 /\ cliBeat' = cliBeat - 1
        BY <3>2 DEF Tick
      <4>2. QED
        BY <3>1, <3>2, <4>1, TimingAssumption
    <3>3. CASE cli # "session"
      BY <3>1, <3>3 DEF Tick
    <3>4. QED
      BY <3>2, <3>3
  <2>4. cliAlone' \in 0..TooLong
    <3>1. cliAlone \in 0..TooLong
      BY DEF TypeOK
    <3>2. cliAlone' = cliAlone \/ cliAlone' = Smaller(cliAlone + 1, TooLong)
      BY DEF Tick
    <3>3. QED
      BY <3>1, <3>2, TimingAssumption DEF Smaller, TooLong
  <2>5. wait' \in 0..BackoffMax
    BY TimingAssumption DEF Tick, TypeOK
  <2>6. QED
    BY <2>1, <2>2, <2>3, <2>4, <2>5 DEF Tick, TypeOK, Ages
<1>3. ClientUntimed'
  BY DEF Tick, ClientUntimed
<1>4. ASSUME NEW m \in Conns PROVE ConnInv(m)'
  <2>1. ConnInv(m)
    OBVIOUS
  <2>2. UNCHANGED <<srv, cli, cur, cut>>
    BY DEF Tick
  <2>3. /\ toSrv'[m] = Older(toSrv[m]) /\ toCli'[m] = Older(toCli[m])
    BY DEF Tick
  <2>4. /\ toSrv'[m] = <<>> <=> toSrv[m] = <<>>
        /\ toCli'[m] = <<>> <=> toCli[m] = <<>>
        /\ toSrv[m] # <<>> => toSrv'[m][1] = toSrv[m][1] + 1 /\ toSrv[m][1] \in 0..MaxDelay
        /\ toCli[m] # <<>> => toCli'[m][1] = toCli[m][1] + 1 /\ toCli[m][1] \in 0..MaxDelay
    BY <1>1, <2>3, AgesOlder, AgesRead
  <2>5. /\ srv[m] = "session" =>
             /\ srvSilence'[m] = srvSilence[m] + 1 /\ srvBeat'[m] = srvBeat[m] - 1
             /\ srvAlone'[m] = IF cut[m] \/ cur # m
                               THEN Smaller(srvAlone[m] + 1, TooLong) ELSE srvAlone[m]
        /\ srv[m] # "session" =>
             /\ srvSilence'[m] = srvSilence[m] /\ srvBeat'[m] = srvBeat[m]
             /\ srvAlone'[m] = srvAlone[m]
    BY Counters DEF Tick, TypeOK
  <2>6. cur = m /\ cli = "session" =>
          /\ cliBeat > 0 /\ cliSilence' = cliSilence + 1 /\ cliBeat' = cliBeat - 1
          /\ cliAlone' = IF cut[m] \/ srv[m] # "session"
                         THEN Smaller(cliAlone + 1, TooLong) ELSE cliAlone
    BY DEF Tick, Punctual
  <2>7. /\ srvSilence[m] \in Nat /\ srvBeat[m] \in Nat /\ srvAlone[m] \in Nat
        /\ cliSilence \in Nat /\ cliBeat \in Nat /\ cliAlone \in Nat
    BY Counters
  <2>8. Untimed(m)' /\ Empty(m)' /\ Greeting(m)'
    BY <2>1, <2>2, <2>4, <2>5 DEF ConnInv, Untimed, Empty, Greeting
  <2>9. ServerHears(m)'
    <3>1. SUFFICES ASSUME srv[m] = "session", cur = m, ~cut[m]
                   PROVE  ServerHears(m)'
      BY <2>2 DEF ServerHears
    <3>2. CASE cli = "handshake"
      BY <2>1, <2>2, <2>4, <2>5, <2>7, <3>1, <3>2, TimingAssumption DEF ConnInv, ServerHears
    <3>3. CASE cli = "session" /\ toSrv[m] = <<>>
      <4>1. srvSilence[m] + cliBeat <= Period
        BY <2>1, <2>6, <3>1, <3>3 DEF ConnInv, ServerHears
      <4>2. srvSilence'[m] + cliBeat' <= Period
        BY <2>5, <2>6, <2>7, <3>1, <3>3, <4>1, TimingAssumption, SMTT(30)
      <4>3. QED
        BY <2>2, <2>4, <3>3, <4>2 DEF ServerHears
    <3>4. CASE cli = "session" /\ toSrv[m] # <<>>
      <4>1. \/ srvSilence[m] <= toSrv[m][1] + Period
            \/ srvSilence[m] <= toSrv[m][1] + MaxDelay
        BY <2>1, <3>1, <3>4 DEF ConnInv, ServerHears
      <4>2. \/ srvSilence'[m] <= toSrv'[m][1] + Period
            \/ srvSilence'[m] <= toSrv'[m][1] + MaxDelay
        <5>1. /\ toSrv'[m][1] = toSrv[m][1] + 1 /\ toSrv[m][1] \in Nat
              /\ srvSilence'[m] = srvSilence[m] + 1
          BY <2>4, <2>5, <3>1, <3>4
        <5>2. QED
          BY <2>7, <4>1, <5>1, TimingAssumption
      <4>3. QED
        BY <2>2, <2>4, <3>4, <4>2 DEF ServerHears
    <3>5. QED
      BY <2>2, <3>2, <3>3, <3>4 DEF ServerHears
  <2>10. ClientHears(m)'
    <3>1. SUFFICES ASSUME srv[m] = "session", cur = m, ~cut[m], cli = "session"
                   PROVE  ClientHears(m)'
      BY <2>2 DEF ClientHears
    <3>2. CASE toCli[m] = <<>>
      <4>1. cliSilence + srvBeat[m] <= Period
        BY <2>1, <3>1, <3>2 DEF ConnInv, ClientHears
      <4>2. cliSilence' + srvBeat'[m] <= Period
        BY <2>5, <2>6, <2>7, <3>1, <4>1, TimingAssumption
      <4>3. QED
        BY <2>4, <3>2, <4>2 DEF ClientHears
    <3>3. CASE toCli[m] # <<>>
      <4>1. cliSilence <= toCli[m][1] + Period
        BY <2>1, <3>1, <3>3 DEF ConnInv, ClientHears
      <4>2. cliSilence' <= toCli'[m][1] + Period
        BY <2>4, <2>6, <2>7, <3>1, <3>3, <4>1, TimingAssumption, SMTT(30)
      <4>3. QED
        BY <2>4, <3>3, <4>2 DEF ClientHears
    <3>4. QED
      BY <3>2, <3>3
  <2>11. ServerCounts(m)'
    <3>1. SUFFICES ASSUME srv[m] = "session", cut[m] \/ cur # m
                   PROVE  ServerCounts(m)'
      BY <2>1, <2>2, <2>5 DEF ConnInv, ServerCounts
    <3>2. srvAlone'[m] <= srvAlone[m] + 1
      BY <2>5, <2>7, <3>1, TimingAssumption DEF Smaller, TooLong
    <3>3. srvAlone'[m] \in Nat
      BY <2>5, <2>7, <3>1, TimingAssumption DEF Smaller, TooLong
    <3>4. ASSUME NEW i \in DOMAIN toSrv'[m] PROVE srvAlone'[m] <= toSrv'[m][i]
      <4>1. i \in DOMAIN toSrv[m] /\ toSrv'[m][i] = toSrv[m][i] + 1
        BY <1>1, <2>3, AgesOlder
      <4>2. toSrv[m][i] \in 0..MaxDelay
        BY <1>1, <4>1, AgesBounded
      <4>3. QED
        BY <2>1, <2>7, <3>1, <3>2, <3>3, <4>1, <4>2, TimingAssumption DEF ConnInv, ServerCounts
    <3>5. srvAlone'[m] <= srvSilence'[m] + MaxDelay
      BY <2>1, <2>5, <2>7, <3>1, <3>2, <3>3, TimingAssumption DEF ConnInv, ServerCounts
    <3>6. QED
      BY <2>2, <3>1, <3>4, <3>5 DEF ServerCounts
  <2>12. ClientCounts(m)'
    <3>1. SUFFICES ASSUME cur = m, cli = "session", cut[m] \/ srv[m] # "session"
                   PROVE  ClientCounts(m)'
      BY <2>1, <2>2, <2>6 DEF ConnInv, ClientCounts
    <3>2. cliAlone' <= cliAlone + 1 /\ cliAlone' \in Nat
      BY <2>6, <2>7, <3>1, TimingAssumption DEF Smaller, TooLong
    <3>3. ASSUME NEW i \in DOMAIN toCli'[m] PROVE cliAlone' <= toCli'[m][i]
      <4>1. i \in DOMAIN toCli[m] /\ toCli'[m][i] = toCli[m][i] + 1
        BY <1>1, <2>3, AgesOlder
      <4>2. toCli[m][i] \in 0..MaxDelay
        BY <1>1, <4>1, AgesBounded
      <4>3. QED
        BY <2>1, <2>7, <3>1, <3>2, <4>1, <4>2, TimingAssumption DEF ConnInv, ClientCounts
    <3>4. cliAlone' <= cliSilence' + MaxDelay
      BY <2>1, <2>6, <2>7, <3>1, <3>2, TimingAssumption DEF ConnInv, ClientCounts
    <3>5. QED
      BY <2>2, <3>1, <3>3, <3>4 DEF ClientCounts
  <2>13. QED
    BY <2>8, <2>9, <2>10, <2>11, <2>12 DEF ConnInv
<1>5. QED
  BY <1>2, <1>3, <1>4

-----------------------------------------------------------------------------
\* One step per action.
LEMMA Step == Inv /\ [Next]_vars => Inv'
<1> SUFFICES ASSUME Inv, [Next]_vars
             PROVE  Inv'
  OBVIOUS
<1>1. ASSUME NEW n \in Conns, Attempt(n) PROVE Inv'
  BY <1>1, AttemptStep
<1>2. ASSUME NEW n \in Conns, HandshakeFails(n) PROVE Inv'
  <2>1. HandlersGo({n}) /\ {n} \in SUBSET Conns /\ server' = server /\ status' = "listening"
    BY <1>2 DEF HandshakeFails, HandlerEnds
  <2>2. faults' \in 0..MaxFaults
    BY <1>2, TimingAssumption DEF HandshakeFails, Fault, Inv, TypeOK
  <2>3. server' \in BOOLEAN
    BY <2>1 DEF Inv, TypeOK
  <2>4. QED
    BY <2>1, <2>2, <2>3, HandlersGoStep
<1>3. ASSUME NEW n \in Conns, ServerDeclaresDead(n) \/ ServerSeesEnd(n) PROVE Inv'
  <2>1. HandlersGo({n}) /\ {n} \in SUBSET Conns /\ server' = server /\ status' = "listening"
    BY <1>3 DEF ServerDeclaresDead, ServerSeesEnd, HandlerEnds
  <2>2. faults' \in 0..MaxFaults /\ server' \in BOOLEAN
    BY <1>3, <2>1 DEF ServerDeclaresDead, ServerSeesEnd, Inv, TypeOK
  <2>3. QED
    BY <2>1, <2>2, HandlersGoStep
<1>4. CASE ServerStops
  <2>1. HandlersGo(Conns) /\ server' = FALSE /\ status' = "idle"
    BY <1>4 DEF ServerStops
  <2>2. faults' \in 0..MaxFaults
    BY <1>4, TimingAssumption DEF ServerStops, Fault, Inv, TypeOK
  <2>3. QED
    BY <2>1, <2>2, HandlersGoStep
<1>5. CASE ClientDeclaresDead \/ ClientSeesEnd
  <2>1. cli # "none" /\ ClientLeaves /\ faults' \in 0..MaxFaults
    BY <1>5 DEF ClientDeclaresDead, ClientSeesEnd, Inv, TypeOK
  <2>2. QED
    BY <2>1, ClientLeavesStep
<1>6. CASE ClientRestarts
  <2>1. cli # "none" /\ ClientLeaves
    BY <1>6 DEF ClientRestarts
  <2>2. faults' \in 0..MaxFaults
    BY <1>6, TimingAssumption DEF ClientRestarts, Fault, Inv, TypeOK
  <2>3. QED
    BY <2>1, <2>2, ClientLeavesStep
<1>7. ASSUME NEW n \in Conns, ServerGetsHello(n) PROVE Inv'
  BY <1>7, ServerGetsHelloStep
<1>8. ASSUME NEW n \in Conns, ServerBeats(n) \/ ServerReads(n) PROVE Inv'
  BY <1>8, ServerBeatsStep, ServerReadsStep
<1>9. ASSUME NEW n \in Conns, Cut(n) PROVE Inv'
  BY <1>9, CutStep
<1>10. CASE Refused \/ ServerStarts
  BY <1>10, RefusedStep, ServerStartsStep
<1>11. CASE ClientBeats \/ ClientReads
  BY <1>11, ClientBeatsStep, ClientReadsStep
<1>12. CASE Tick
  BY <1>12, TickStep
<1>13. CASE UNCHANGED vars
  <2>1. TypeOK' /\ ClientUntimed'
    BY <1>13 DEF Inv, TypeOK, ClientUntimed, vars, srvVars, cliVars, netVars
  <2>2. ASSUME NEW m \in Conns PROVE ConnInv(m)'
    BY <1>13 DEF Inv, vars, srvVars, cliVars, netVars, ConnInv, Untimed, Empty, Greeting,
      ServerHears, ClientHears, ServerCounts, ClientCounts
  <2>3. QED
    BY <2>1, <2>2 DEF Inv
<1>14. QED
  BY <1>1, <1>2, <1>3, <1>4, <1>5, <1>6, <1>7, <1>8, <1>9, <1>10, <1>11, <1>12, <1>13
    DEF Next, HandlerStep

LEMMA Invariant == Spec => []Inv
<1>1. Init => Inv
  BY Initial
<1>2. Inv /\ [Next]_vars => Inv'
  BY Step
<1>3. QED
  BY <1>1, <1>2, PTL DEF Spec

-----------------------------------------------------------------------------
\* A frame is at most MaxDelay old, so an end whose peer lives has been silent for
\* less than a deadline.
LEMMA NoFalseAlarmHere == Inv => NoFalseAlarm
<1> SUFFICES ASSUME Inv PROVE NoFalseAlarm
  OBVIOUS
<1>1. ASSUME NEW n \in Conns, srv[n] = "session", cur = n, ~cut[n]
      PROVE  srvSilence[n] < Deadline
  <2>1. ServerHears(n) /\ cli \in {"handshake", "session"}
    BY <1>1, TimingAssumption DEF Inv, ConnInv, TypeOK, Phase
  <2>2. /\ srvSilence[n] \in Nat /\ cliBeat \in Nat
        /\ toSrv[n] # <<>> => toSrv[n][1] \in 0..MaxDelay
        /\ toCli[n] # <<>> => toCli[n][1] \in 0..MaxDelay
    <3>1. toSrv[n] \in Ages /\ toCli[n] \in Ages
      BY AgesTyped DEF Inv
    <3>2. srvSilence[n] \in Nat /\ cliBeat \in Nat
      BY Counters DEF Inv
    <3>3. QED
      BY <3>1, <3>2, AgesRead
  <2>3. CASE cli = "handshake"
    BY <1>1, <2>1, <2>2, <2>3, TimingAssumption DEF ServerHears
  <2>4. CASE cli = "session" /\ toSrv[n] = <<>>
    BY <1>1, <2>1, <2>2, <2>4, TimingAssumption DEF ServerHears
  <2>5. CASE cli = "session" /\ toSrv[n] # <<>>
    BY <1>1, <2>1, <2>2, <2>5, TimingAssumption DEF ServerHears
  <2>6. QED
    BY <2>1, <2>3, <2>4, <2>5
<1>2. ASSUME cli = "session", ~cut[cur], srv[cur] = "session"
      PROVE  cliSilence < Deadline
  <2>1. cur \in Conns
    BY <1>2 DEF Inv, TypeOK
  <2>2. ClientHears(cur)
    BY <2>1 DEF Inv, ConnInv
  <2>3. /\ srvBeat[cur] \in Nat /\ cliSilence \in Nat
        /\ toCli[cur] # <<>> => toCli[cur][1] \in 0..MaxDelay
    <3>1. toCli[cur] \in Ages
      BY <2>1, AgesTyped DEF Inv
    <3>2. srvBeat[cur] \in Nat /\ cliSilence \in Nat
      BY <2>1, Counters DEF Inv
    <3>3. QED
      BY <3>1, <3>2, AgesRead
  <2>4. CASE toCli[cur] = <<>>
    BY <1>2, <2>2, <2>3, <2>4, TimingAssumption DEF ClientHears
  <2>5. CASE toCli[cur] # <<>>
    BY <1>2, <2>2, <2>3, <2>5, TimingAssumption DEF ClientHears
  <2>6. QED
    BY <2>4, <2>5
<1>3. /\ \A n \in Conns : srvSilence[n] \in Nat
      /\ cliSilence \in Nat
  BY Counters DEF Inv
<1>4. QED
  BY <1>1, <1>2, <1>3, TimingAssumption DEF NoFalseAlarm

LEMMA DeadWithinDeadlineHere == Inv => DeadWithinDeadline
<1> SUFFICES ASSUME Inv PROVE DeadWithinDeadline
  OBVIOUS
<1>1. ASSUME NEW n \in Conns PROVE srvAlone[n] < TooLong
  <2>1. /\ Untimed(n) /\ ServerCounts(n)
        /\ srvSilence[n] \in 0..Deadline /\ srvAlone[n] \in 0..TooLong
    BY <1>1 DEF Inv, ConnInv, TypeOK
  <2>2. srvAlone[n] = 0 \/ srvAlone[n] <= srvSilence[n] + MaxDelay
    BY <2>1 DEF Untimed, ServerCounts
  <2>3. QED
    BY <2>1, <2>2, TimingAssumption DEF TooLong
<1>2. cliAlone < TooLong
  <2>1. cliSilence \in 0..Deadline /\ cliAlone \in 0..TooLong
    BY DEF Inv, TypeOK
  <2>2. cliAlone = 0 \/ cliAlone <= cliSilence + MaxDelay
    <3>1. CASE cli = "session"
      <4>1. cur \in Conns
        BY <3>1 DEF Inv, TypeOK
      <4>2. ClientCounts(cur)
        BY <4>1 DEF Inv, ConnInv
      <4>3. QED
        BY <3>1, <4>2 DEF ClientCounts
    <3>2. CASE cli # "session"
      BY <3>2 DEF Inv, ClientUntimed
    <3>3. QED
      BY <3>1, <3>2
  <2>3. QED
    BY <2>1, <2>2, TimingAssumption DEF TooLong
<1>3. QED
  BY <1>1, <1>2 DEF DeadWithinDeadline

\* The variables keep their types: the silences stop at the deadline, the ages at the
\* delay of the network and the backoff at its maximum, though each step adds to them.
THEOREM LifecycleTyped == Spec => []TypeOK
<1>1. Inv => TypeOK
  BY DEF Inv
<1>2. QED
  BY <1>1, Invariant, PTL

\* Neither deadline watcher ends a session whose peer is there and whose connection
\* delivers, whatever connections were left or cut before, provided a heartbeat period
\* and a delay fit into the deadline, and so do two delays.
THEOREM LivePeerNeverDeclaredDead == Spec => []NoFalseAlarm
BY NoFalseAlarmHere, Invariant, PTL

\* No session, at either end, outlives its peer or its connection by more than the
\* deadline and the delay of the frames still under way.
THEOREM DeadSessionsEnd == Spec => []DeadWithinDeadline
BY DeadWithinDeadlineHere, Invariant, PTL
=============================================================================
