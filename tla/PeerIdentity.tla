----------------------------- MODULE PeerIdentity -----------------------------
(***************************************************************************)
(* The files a machine is known by, across crashes: its certificate and    *)
(* key, written when it first runs, and the pin of its peer, replaced      *)
(* through a temporary file.  Written for the client, whose processes (a   *)
(* helper of the service, a run in the foreground) share the directory;    *)
(* the server's bootstrap and pin store are the same code.                 *)
(*                                                                         *)
(* A process may be killed between any two system calls.  When the power   *)
(* fails a file that was not flushed may be left as it was, as it is, or   *)
(* empty; one whose rename was not yet written back as it was or as it is. *)
(* "Empty" stands for every content that load refuses.                     *)
(***************************************************************************)
EXTENDS Naturals, FiniteSets

CONSTANTS
  Runs,        \* model bound on the processes at one time
  NIdentities  \* model bound on the certificates ever generated

ASSUME IdentityAssumption == NIdentities \in Nat \ {0}

Identity == 1 .. NIdentities

\* Contents of a file next to the identities; the peer's, in a pin file, is 1.
Absent == 0
Empty == NIdentities + 1
Whole == 1

File == {"cert", "key", "pin", "tmp"}
Contents == 0 .. NIdentities + 1

VARIABLES
  at,     \* at[p]: the next thing process p does
  mem,    \* mem[p]: the certificate and key it holds
  fd,     \* fd[p]: the name of the file it has open in store, "gone" for none
  now,    \* now[f]: what a read of f returns
  safe,   \* safe[f]: what is surely on the disk
  wet,    \* the files whose content is not flushed
  drawn,  \* how many identities have been generated
  pinned, \* the certificate the peer has pinned, or Absent
  raced,  \* history: two processes were writing at one time
  outage  \* history: the power has failed

fileVars == <<now, safe, wet>>
history == <<raced, outage>>
identityVars == <<at, mem, fd, fileVars, drawn, pinned, history>>

\* "cert" to "flush" save a new identity, "open" to "rename" store a pin.
Saving == {"cert", "fill cert", "key", "fill key", "flush"}
Storing == {"fill", "sync", "rename"}
Writing == Saving \cup Storing
Serving == {"ready", "open"} \cup Storing
Place == {"off", "discover", "check", "load cert", "load key", "settle"}
           \cup Saving \cup Serving

IdentityTypeOK ==
  /\ at \in [Runs -> Place]
  /\ mem \in [Runs -> [cert : Contents, key : Contents]]
  /\ fd \in [Runs -> {"gone", "tmp", "pin"}]
  /\ now \in [File -> Contents] /\ safe \in [File -> Contents] /\ wet \in SUBSET File
  /\ drawn \in 0 .. NIdentities /\ pinned \in Contents
  /\ raced \in BOOLEAN /\ outage \in BOOLEAN

Nothing == [cert |-> Absent, key |-> Absent]

IdentityInit ==
  /\ at = [p \in Runs |-> "off"] /\ mem = [p \in Runs |-> Nothing]
  /\ fd = [p \in Runs |-> "gone"]
  /\ now = [f \in File |-> Absent] /\ safe = now /\ wet = {}
  /\ drawn = 0 /\ pinned = Absent
  /\ raced = FALSE /\ outage = FALSE

-----------------------------------------------------------------------------
\* Process p goes on to do a.
Goes(p, a) ==
  /\ at' = [at EXCEPT ![p] = a]
  /\ raced' = (raced \/ (a \in Writing /\ \E q \in Runs \ {p} : at[q] \in Writing))
  /\ UNCHANGED outage

\* p ends; what it holds is lost, its files are closed.
Ends(p) ==
  /\ Goes(p, "off")
  /\ mem' = [mem EXCEPT ![p] = Nothing]
  /\ fd' = [fd EXCEPT ![p] = "gone"]

\* A write of c to file f that is not flushed, and its flush.
Puts(f, c) ==
  /\ now' = [now EXCEPT ![f] = c]
  /\ wet' = wet \cup {f}
  /\ UNCHANGED safe

Flushes(f) ==
  /\ safe' = [safe EXCEPT ![f] = now[f]]
  /\ wet' = wet \ {f}
  /\ UNCHANGED now

-----------------------------------------------------------------------------
(* Start-up: run_foreground and the bootstrap of run_client.                *)

Begins(p) ==
  /\ at[p] = "off"
  /\ Goes(p, "discover")
  /\ UNCHANGED <<mem, fd, fileVars, drawn, pinned>>

\* resolve_connect_addr: KMWARP_CONNECT, or the first server the browse resolves.
Finds(p) ==
  /\ at[p] = "discover"
  /\ Goes(p, "check")
  /\ UNCHANGED <<mem, fd, fileVars, drawn, pinned>>

\* cert_path.exists() && key_path.exists(), else a new identity.
Checks(p) ==
  /\ at[p] = "check"
  /\ IF now["cert"] # Absent /\ now["key"] # Absent
     THEN Goes(p, "load cert") /\ UNCHANGED <<mem, drawn>>
     ELSE /\ drawn < NIdentities /\ drawn' = drawn + 1
          /\ Goes(p, "cert")
          /\ mem' = [mem EXCEPT ![p] = [cert |-> drawn + 1, key |-> drawn + 1]]
  /\ UNCHANGED <<fd, fileVars, pinned>>

\* load_from_disk reads one file, then the other, then looks whether one is empty.
LoadsCert(p) ==
  /\ at[p] = "load cert"
  /\ Goes(p, "load key")
  /\ mem' = [mem EXCEPT ![p].cert = now["cert"]]
  /\ UNCHANGED <<fd, fileVars, drawn, pinned>>

\* Mutant: a file that cannot be loaded is no reason to stop.
LoadsKeyOrDraws(p) ==
  /\ at[p] = "load key"
  /\ Goes(p, "settle")
  /\ IF Empty \in {mem[p].cert, now["key"]}
     THEN /\ drawn < NIdentities /\ drawn' = drawn + 1
          /\ mem' = [mem EXCEPT ![p] = [cert |-> drawn + 1, key |-> drawn + 1]]
     ELSE mem' = [mem EXCEPT ![p].key = now["key"]] /\ UNCHANGED drawn
  /\ UNCHANGED <<fd, fileVars, pinned>>

LoadsKey(p) ==
  /\ at[p] = "load key"
  /\ IF Empty \in {mem[p].cert, now["key"]}
     THEN Ends(p)
     ELSE /\ Goes(p, "settle") /\ mem' = [mem EXCEPT ![p].key = now["key"]]
          /\ UNCHANGED fd
  /\ UNCHANGED <<fileVars, drawn, pinned>>

\* save_to_disk: fs::write creates or truncates the certificate, fills it, and does
\* not flush it; write_key_locked_down does the same to the key, and flushes it.
SavesPart(p, a, f, c, b) ==
  /\ at[p] = a
  /\ Goes(p, b) /\ Puts(f, c)
  /\ UNCHANGED <<mem, fd, drawn, pinned>>

Saves(p) ==
  \/ SavesPart(p, "cert", "cert", Empty, "fill cert")
  \/ SavesPart(p, "fill cert", "cert", mem[p].cert, "key")
  \/ SavesPart(p, "key", "key", Empty, "fill key")
  \/ SavesPart(p, "fill key", "key", mem[p].key, "flush")

FlushesKey(p) ==
  /\ at[p] = "flush"
  /\ Goes(p, "settle") /\ Flushes("key")
  /\ UNCHANGED <<mem, fd, drawn, pinned>>

\* Whoever has the removed pin file open writes to a file without a name.
Settles(p, repair) ==
  /\ at[p] = "settle"
  /\ Goes(p, "ready")
  /\ IF repair /\ now["pin"] # Absent
     THEN /\ now' = [now EXCEPT !["pin"] = Absent] /\ wet' = wet \ {"pin"}
          /\ fd' = [q \in Runs |-> IF fd[q] = "pin" THEN "gone" ELSE fd[q]]
          /\ UNCHANGED safe
     ELSE UNCHANGED <<fileVars, fd>>
  /\ UNCHANGED <<mem, drawn, pinned>>

-----------------------------------------------------------------------------
(* Pairing and PinStore::store.                                             *)

\* Neither side has a pin: the code was right, the certificates are exchanged, the
\* HMAC of the peer's is verified.
Pairs(p) ==
  /\ at[p] = "ready" /\ now["pin"] = Absent /\ pinned = Absent
  /\ Goes(p, "open")
  /\ UNCHANGED <<mem, fd, fileVars, drawn, pinned>>

\* The peer has p's certificate, verifies its HMAC and stores it, before or after p
\* stores the peer's.
PeerPins(p) ==
  /\ at[p] \in Serving /\ (at[p] = "ready" => now["pin"] = Absent)
  /\ pinned = Absent /\ pinned' = mem[p].cert
  /\ UNCHANGED <<at, mem, fd, fileVars, drawn, history>>

\* An error on the way to store, or from it.
PairingFails(p) ==
  /\ at[p] = "open"
  /\ Goes(p, "ready")
  /\ UNCHANGED <<mem, fd, fileVars, drawn, pinned>>

\* The peer is started with KMWARP_REPAIR=1.
PeerForgets ==
  /\ pinned # Absent /\ pinned' = Absent
  /\ UNCHANGED <<at, mem, fd, fileVars, drawn, history>>

\* peer.pin.tmp is created or truncated: every process takes the same name.
OpensTmp(p) ==
  /\ at[p] = "open"
  /\ Goes(p, "fill") /\ Puts("tmp", Empty)
  /\ fd' = [fd EXCEPT ![p] = "tmp"]
  /\ UNCHANGED <<mem, drawn, pinned>>

\* Mutant: the content goes to the disk when it likes.
FillsUnsynced(p) ==
  /\ at[p] = "fill"
  /\ Goes(p, "rename")
  /\ IF fd[p] = "gone" THEN UNCHANGED fileVars ELSE Puts(fd[p], Whole)
  /\ UNCHANGED <<mem, fd, drawn, pinned>>

\* write_all and sync_all on the open file, whatever name it has by now.
Fills(p) ==
  /\ at[p] = "fill"
  /\ Goes(p, "sync")
  /\ IF fd[p] = "gone" THEN UNCHANGED fileVars ELSE Puts(fd[p], Whole)
  /\ UNCHANGED <<mem, fd, drawn, pinned>>

Syncs(p) ==
  /\ at[p] = "sync"
  /\ Goes(p, "rename")
  /\ IF fd[p] = "gone" THEN UNCHANGED fileVars ELSE Flushes(fd[p])
  /\ fd' = [fd EXCEPT ![p] = "gone"]
  /\ UNCHANGED <<mem, drawn, pinned>>

\* fs::rename, which fails when the file is no longer there.  p has it closed;
\* another process that has it open has peer.pin open from now on.
Renames(p) ==
  /\ at[p] = "rename"
  /\ Goes(p, "ready")
  /\ IF now["tmp"] = Absent
     THEN UNCHANGED <<fileVars, fd>>
     ELSE /\ now' = [now EXCEPT !["pin"] = now["tmp"], !["tmp"] = Absent]
          /\ wet' = (wet \ {"pin", "tmp"}) \cup (IF "tmp" \in wet THEN {"pin"} ELSE {})
          /\ fd' = [q \in Runs |-> CASE fd[q] = "tmp" -> "pin"
                                     [] OTHER -> "gone"]
          /\ UNCHANGED safe
  /\ UNCHANGED <<mem, drawn, pinned>>

-----------------------------------------------------------------------------
(* Crashes.                                                                 *)

\* Quit, a service stop, a log-out, an error exit, a crash.
Crashes(p) ==
  /\ at[p] # "off"
  /\ Ends(p)
  /\ UNCHANGED <<fileVars, drawn, pinned>>

\* The system writes everything back in its own time.
WritesBack ==
  /\ safe # now \/ wet # {}
  /\ safe' = now /\ wet' = {}
  /\ UNCHANGED <<at, mem, fd, now, drawn, pinned, history>>

\* What an outage leaves of f.
Leaves(f) == {now[f], safe[f]} \cup (IF f \in wet THEN {Empty} ELSE {})

PowerFails ==
  /\ at' = [p \in Runs |-> "off"] /\ mem' = [p \in Runs |-> Nothing]
  /\ fd' = [p \in Runs |-> "gone"]
  /\ \E c \in Leaves("cert"), k \in Leaves("key"), n \in Leaves("pin"), t \in Leaves("tmp") :
       now' = [f \in File |-> CASE f = "cert" -> c [] f = "key" -> k
                                [] f = "pin" -> n [] f = "tmp" -> t]
  /\ safe' = now' /\ wet' = {}
  /\ outage' = TRUE
  /\ UNCHANGED <<drawn, pinned, raced>>

ProcessStep(p) ==
  \/ Begins(p) \/ Finds(p) \/ Checks(p) \/ LoadsCert(p) \/ LoadsKey(p)
  \/ Saves(p) \/ FlushesKey(p) \/ \E r \in BOOLEAN : Settles(p, r)
  \/ Pairs(p) \/ PeerPins(p) \/ PairingFails(p)
  \/ OpensTmp(p) \/ Fills(p) \/ Syncs(p) \/ Renames(p)
  \/ Crashes(p)

IdentityNext ==
  \/ \E p \in Runs : ProcessStep(p)
  \/ PeerForgets \/ WritesBack \/ PowerFails

IdentitySpec == IdentityInit /\ [][IdentityNext]_identityVars
-----------------------------------------------------------------------------
(* What the files promise.                                                  *)

\* "Atomically write the pin: tmpfile + rename": peer.pin is never found in a state
\* that load refuses, whenever processes are killed or the power fails, as long as
\* two of them do not store at one time.
PinNeverTorn == ~raced => now["pin"] # Empty

\* The certificate the peer has pinned is the one on the disk, with its key, and the
\* one every process connects with: a machine that has paired is not given a new
\* identity, however its processes crash.  (Power failures and two first runs at
\* one time are the cases it does not hold in.)
IdentityLasts ==
  ~raced /\ ~outage /\ pinned # Absent =>
    /\ now["cert"] = pinned /\ now["key"] = pinned
    /\ \A p \in Runs : at[p] \in Serving => mem[p] = [cert |-> pinned, key |-> pinned]

\* The same with power failures: "pairing survives reboot on both sides"
\* (kmwarp-SPEC.md, M9).
SurvivesReboot ==
  ~raced /\ pinned # Absent => now["cert"] = pinned /\ now["key"] = pinned

\* "The only persistent state (peer.pin) is written atomically" (main.rs, on leaving
\* the runtime where it is): a process that is killed while it writes leaves nothing
\* the next one cannot start from.
NextStartWorks ==
  (\A p \in Runs : at[p] = "off") =>
    Absent \in {now["cert"], now["key"]} \/ Empty \notin {now["cert"], now["key"]}
=============================================================================
